---------------------------- MODULE Spec2Model ----------------------------
(***************************************************************************)
(* A model of the Motorola S-record codec of TierOne-Software/srec:        *)
(*   - the record model (Srec, Srec0..Srec9: getRecordData, checksum,      *)
(*     toString) of srec/srec.h,                                           *)
(*   - the writer session SrecFile of srec/srec.cpp,                       *)
(*   - the line parser SrecStreamParser::parse_line,                       *)
(*   - the converters convert_stream / write_checksum /                    *)
(*     convert_srec_to_bin,                                                *)
(*   - the stream parser SrecStreamParser::parse_stream.                   *)
(* Each part has its specification: SpecFormat, Spec, SpecConvert (and     *)
(* SpecEncodeFair, the encoding run to its end), SpecDecode, SpecStream.   *)
(* A character is its code (a char), a text line a sequence of            *)
(* characters, a byte a number in 0..255, a file a sequence of lines.      *)
(***************************************************************************)
EXTENDS Integers, Sequences, FiniteSets, TLC

VARIABLES
    filename,           \* SrecFile::filename
    is_open,            \* SrecFile::file.is_open()
    address,            \* SrecFile::address (current address, unsigned int)
    exec_address,       \* SrecFile::exec_address
    address_size_bits,  \* SrecFile::address_size_bits
    record_count,       \* SrecFile::record_count
    fs,                 \* the file system: path -> sequence of lines
    prior,              \* lines written to fs[filename] that fs does not keep
    hist,               \* history of the session: what the calls so far did
    last,               \* the last call: its arguments and what it threw
    fmt,                \* the record under toString / the line under parse_line
    conv,               \* the state of one convert_stream / convert_srec_to_bin run
    scan                \* the state of one parse_stream run

vars == <<filename, is_open, address, exec_address, address_size_bits,
          record_count, fs, prior, hist, last, fmt, conv, scan>>

sessionVars == <<filename, is_open, address, exec_address, address_size_bits,
                 record_count, fs, prior, hist, last>>

-----------------------------------------------------------------------------
(* Program constants.                                                      *)

MAX_RECORD_COUNT == 1000000
MAX_ADDR16 == 65535
MAX_ADDR24 == 16777215
MAX_RECORD_DATA == 254

(* Bounds of the model.                                                    *)

\* the number of calls made on one writer session
MaxOps == 3
\* the longest explicit payload of a record under toString / parse_line
MaxData == 2
\* the longest binary input of a conversion
MaxInput == 3

-----------------------------------------------------------------------------
(* Unsigned numbers of 32 bits and more.  An address is a pair <<hi, lo>>  *)
(* standing for hi * 65536 + lo, with lo in 0..65535; hi is below 65536    *)
(* for a value that fits 32 bits and larger for a size_t that does not.    *)

W(hi, lo) == <<hi + (lo \div 65536), lo % 65536>>

\* a number below 2^31 as a pair
WOf(n) == W(0, n)

\* a + n for a size n below 2^31, computed without wrapping (size_t)
WAdd(a, n) == W(a[1] + (n \div 65536), a[2] + (n % 65536))

\* a - n for n <= a
WSub(a, n) ==
    LET l == a[2] - (n % 65536)
        h == a[1] - (n \div 65536)
    IN  IF l < 0 THEN <<h - 1, l + 65536>> ELSE <<h, l>>

WGt(a, b) == a[1] > b[1] \/ (a[1] = b[1] /\ a[2] > b[2])

\* the conversion to uint32_t / unsigned int
WUint32(a) == <<a[1] % 65536, a[2]>>

UINT32_MAX == <<65535, 65535>>

-----------------------------------------------------------------------------
(* Characters.  Ord is the code of a character and Str the text written   *)
(* as a tuple of one-character strings.                                    *)

Ord ==
    ("0" :> 48) @@ ("1" :> 49) @@ ("2" :> 50) @@ ("3" :> 51) @@ ("4" :> 52) @@
    ("5" :> 53) @@ ("6" :> 54) @@ ("7" :> 55) @@ ("8" :> 56) @@ ("9" :> 57) @@
    ("A" :> 65) @@ ("B" :> 66) @@ ("C" :> 67) @@ ("D" :> 68) @@ ("E" :> 69) @@
    ("F" :> 70) @@ ("G" :> 71) @@ ("S" :> 83) @@ ("X" :> 88) @@
    ("a" :> 97) @@ ("b" :> 98) @@ ("c" :> 99) @@ ("d" :> 100) @@ ("e" :> 101) @@
    ("f" :> 102) @@ ("g" :> 103) @@ ("s" :> 115) @@ ("x" :> 120) @@
    (" " :> 32) @@ ("+" :> 43) @@ ("-" :> 45)

Str(text) == [i \in 1..Len(text) |-> Ord[text[i]]]

\* what std::uppercase << std::hex prints for one hex digit: '0'..'9', 'A'..'F'
HexDigitOut(n) == IF n < 10 THEN 48 + n ELSE 65 + (n - 10)

\* ss << std::uppercase << std::hex << n : the digits of n, most significant first
RECURSIVE HexOut(_)
HexOut(n) ==
    IF n < 16 THEN <<HexDigitOut(n)>>
    ELSE HexOut(n \div 16) \o <<HexDigitOut(n % 16)>>

\* std::setfill('0') << std::setw(2) : pads to two characters, never cuts
SetW2(s) == IF Len(s) < 2 THEN <<48>> \o s ELSE s

\* one value printed with setfill('0'), setw(2), uppercase, hex
HexByteOut(n) == SetW2(HexOut(n))

\* for (byte : data) ss << setw(2) << byte : the bytes printed in order
\* (the sequence is split in halves to keep the evaluation shallow)
RECURSIVE HexBytesOut(_)
HexBytesOut(bytes) ==
    IF bytes = <<>> THEN <<>>
    ELSE IF Len(bytes) = 1 THEN HexByteOut(bytes[1])
    ELSE LET m == Len(bytes) \div 2
         IN  HexBytesOut(SubSeq(bytes, 1, m))
             \o HexBytesOut(SubSeq(bytes, m + 1, Len(bytes)))

\* for (byte : data) sum += byte
RECURSIVE SumSeq(_)
SumSeq(s) ==
    IF s = <<>> THEN 0
    ELSE IF Len(s) = 1 THEN s[1]
    ELSE LET m == Len(s) \div 2
         IN  SumSeq(SubSeq(s, 1, m)) + SumSeq(SubSeq(s, m + 1, Len(s)))

-----------------------------------------------------------------------------
(* Errors.  Every exception is a record of one shape.                      *)

NoError ==
    [kind |-> "none", sub |-> "", address |-> <<0, 0>>,
     max_address |-> <<0, 0>>, filename |-> "", line_number |-> 0]

\* SrecFileException(msg, filename)
SrecFileException(f) == [NoError EXCEPT !.kind = "file", !.filename = f]

\* SrecValidationException(msg, error_type)
SrecValidationException(sub) ==
    [NoError EXCEPT !.kind = "validation", !.sub = sub]

\* SrecAddressException(uint32_t addr, uint32_t max_addr): both arguments
\* are converted to uint32_t
SrecAddressException(addr, max) ==
    [NoError EXCEPT !.kind = "address", !.sub = "INVALID_ADDRESS",
                    !.address = WUint32(addr), !.max_address = WUint32(max)]

\* SrecParseException(msg, line = 0)
SrecParseException(line) ==
    [NoError EXCEPT !.kind = "parse", !.line_number = line]

\* a standard exception that is no SrecException (std::invalid_argument, ...)
StdException(what) == [NoError EXCEPT !.kind = "std", !.sub = what]

-----------------------------------------------------------------------------
(* The record model.  A record is [type, address, data]: address holds the *)
(* count of an S5/S6 record, data the header of an S0 record.              *)

Types == {"S0", "S1", "S2", "S3", "S5", "S6", "S7", "S8", "S9"}

\* a variant of getTypeChar that writes an S9 record as '1'
getTypeCharMutS9AsS1(type) ==
    CASE type = "S0" -> 48 [] type = "S1" -> 49 [] type = "S2" -> 50
      [] type = "S3" -> 51 [] type = "S5" -> 53 [] type = "S6" -> 54
      [] type = "S7" -> 55 [] type = "S8" -> 56 [] type = "S9" -> 49
      [] OTHER -> 48

\* Srec::getTypeChar: '0' is 48
getTypeChar(type) ==
    CASE type = "S0" -> 48 [] type = "S1" -> 49 [] type = "S2" -> 50
      [] type = "S3" -> 51 [] type = "S5" -> 53 [] type = "S6" -> 54
      [] type = "S7" -> 55 [] type = "S8" -> 56 [] type = "S9" -> 57
      [] OTHER -> 48

\* static_cast<uint8_t>((v >> s) & 0xFF), for s in {0, 8, 16, 24}
ShiftByte(v, s) ==
    IF s < 16 THEN (v[2] \div (2 ^ s)) % 256
    ELSE (v[1] \div (2 ^ (s - 16))) % 256

\* a variant of Construct that tests the address of data records only
ConstructMutDataOnly(type, addr) ==
    CASE type = "S1" /\ WGt(addr, WOf(MAX_ADDR16)) ->
            SrecAddressException(addr, WOf(MAX_ADDR16))
      [] type = "S2" /\ WGt(addr, WOf(MAX_ADDR24)) ->
            SrecAddressException(addr, WOf(MAX_ADDR24))
      [] OTHER -> NoError

\* the exception the constructor of a record throws, NoError when it throws none
Construct(type, addr) ==
    CASE type \in {"S1", "S9"} /\ WGt(addr, WOf(MAX_ADDR16)) ->
            SrecAddressException(addr, WOf(MAX_ADDR16))
      [] type \in {"S2", "S8"} /\ WGt(addr, WOf(MAX_ADDR24)) ->
            SrecAddressException(addr, WOf(MAX_ADDR24))
      [] type = "S5" /\ WGt(addr, WOf(MAX_ADDR16)) ->
            StdException("invalid_argument")
      [] type = "S6" /\ WGt(addr, WOf(MAX_ADDR24)) ->
            StdException("invalid_argument")
      [] OTHER -> NoError

AddressBytes2(a) == <<ShiftByte(a, 8), ShiftByte(a, 0)>>
AddressBytes3(a) == <<ShiftByte(a, 16), ShiftByte(a, 8), ShiftByte(a, 0)>>
AddressBytes4(a) ==
    <<ShiftByte(a, 24), ShiftByte(a, 16), ShiftByte(a, 8), ShiftByte(a, 0)>>

getRecordData(rec) ==
    CASE rec.type = "S0" -> <<0, 0>> \o rec.data
      [] rec.type = "S1" -> AddressBytes2(rec.address) \o rec.data
      [] rec.type = "S2" -> AddressBytes3(rec.address) \o rec.data
      [] rec.type = "S3" -> AddressBytes4(rec.address) \o rec.data
      [] rec.type = "S5" -> AddressBytes2(rec.address)
      [] rec.type = "S6" -> AddressBytes3(rec.address)
      [] rec.type = "S7" -> AddressBytes4(rec.address)
      [] rec.type = "S8" -> AddressBytes3(rec.address)
      [] rec.type = "S9" -> AddressBytes2(rec.address)

\* a variant of checksum that leaves the byte count out of the sum
checksumMutNoCount(data) == 255 - (SumSeq(data) % 256)

\* Srec::checksum: ~static_cast<std::byte>(sum & 0xFF)
checksum(data) == 255 - ((Len(data) + 1 + SumSeq(data)) % 256)

\* a variant of toString without the limit of 254 bytes
toStringMutNoLimit(rec) ==
    LET data == getRecordData(rec)
    IN  [ok |-> TRUE, err |-> NoError,
         line |-> <<83, getTypeChar(rec.type)>> \o HexByteOut(Len(data) + 1)
                  \o HexBytesOut(data) \o HexByteOut(checksum(data))]

\* Srec::toString: [ok, line] or [ok = FALSE, err]
toString(rec) ==
    LET data == getRecordData(rec)
    IN  IF Len(data) > MAX_RECORD_DATA
        THEN [ok |-> FALSE, err |-> SrecValidationException("DATA_TOO_LARGE"),
              line |-> <<>>]
        ELSE [ok |-> TRUE, err |-> NoError,
              line |-> <<83, getTypeChar(rec.type)>>
                       \o HexByteOut(Len(data) + 1)
                       \o HexBytesOut(data) \o HexByteOut(checksum(data))]

-----------------------------------------------------------------------------
(* The line parser.                                                        *)

\* a variant of hex_char_to_byte that takes any other character as 0
hex_char_to_byteMutLenient(c) ==
    IF c >= 48 /\ c <= 57 THEN c - 48
    ELSE IF c >= 65 /\ c <= 70 THEN c - 65 + 10
    ELSE IF c >= 97 /\ c <= 102 THEN c - 97 + 10
    ELSE 0

\* SrecStreamParser::hex_char_to_byte; -1 stands for the SrecParseException
\* it throws (line number 0)
hex_char_to_byte(c) ==
    IF c >= 48 /\ c <= 57 THEN c - 48
    ELSE IF c >= 65 /\ c <= 70 THEN c - 65 + 10
    ELSE IF c >= 97 /\ c <= 102 THEN c - 97 + 10
    ELSE -1

\* SrecStreamParser::parse_hex_byte(hex_str, offset), offset counted from 0;
\* -1 stands for the SrecParseException it throws or passes on (line number 0)
parse_hex_byte(hex_str, offset) ==
    IF offset + 1 >= Len(hex_str) THEN -1
    ELSE LET high == hex_char_to_byte(hex_str[offset + 1])
             low  == hex_char_to_byte(hex_str[offset + 2])
         IN  IF high < 0 \/ low < 0 THEN -1 ELSE high * 16 + low

\* SrecStreamParser::char_to_type; "" stands for the SrecParseException it throws
char_to_type(c) ==
    CASE c = 48 -> "S0" [] c = 49 -> "S1" [] c = 50 -> "S2"
      [] c = 51 -> "S3" [] c = 53 -> "S5" [] c = 54 -> "S6"
      [] c = 55 -> "S7" [] c = 56 -> "S8" [] c = 57 -> "S9"
      [] OTHER -> ""

\* the width in bytes of the address field parse_line reads for a type
address_bytes(type) ==
    CASE type \in {"S0", "S1", "S9", "S5"} -> 2
      [] type \in {"S2", "S8", "S6"} -> 3
      [] type \in {"S3", "S7"} -> 4

\* a variant of ShiftOr that takes the bytes least significant first
ShiftOrMutLittleEndian(bytes) ==
    CASE Len(bytes) = 2 -> W(0, (bytes[2] * 256) + bytes[1])
      [] Len(bytes) = 3 -> W(bytes[3], (bytes[2] * 256) + bytes[1])
      [] Len(bytes) = 4 ->
            W((bytes[4] * 256) + bytes[3], (bytes[2] * 256) + bytes[1])

\* (b1 << s1) | (b2 << s2) | ... computed in int and stored in the unsigned
\* 32-bit address field of ParsedRecord
ShiftOr(bytes) ==
    CASE Len(bytes) = 2 -> W(0, (bytes[1] * 256) + bytes[2])
      [] Len(bytes) = 3 -> W(bytes[1], (bytes[2] * 256) + bytes[3])
      [] Len(bytes) = 4 ->
            WUint32(W((bytes[1] * 256) + bytes[2], (bytes[3] * 256) + bytes[4]))

NoRecord ==
    [type |-> "", address |-> <<0, 0>>, data |-> <<>>, checksum |-> 0,
     checksum_valid |-> FALSE, line_number |-> 0]

ParseFailure(err) == [ok |-> FALSE, err |-> err, record |-> NoRecord]

\* a variant of parse_checksum that leaves the data bytes out of the sum
parse_checksumMutNoData(byte_count, addr, data) ==
    255 - ((byte_count + SumSeq(addr)) % 256)

\* the sum the parser complements to validate a line
parse_checksum(byte_count, addr, data) ==
    255 - ((byte_count + SumSeq(addr) + SumSeq(data)) % 256)

\* a variant of parse_line that takes a byte count too small for a data
\* field as a record without data
parse_lineMutNoDataField(line, line_number, validate_checksum) ==
    IF line = <<>> \/ line[1] # 83
    THEN ParseFailure(SrecParseException(line_number))
    ELSE IF Len(line) < 6
    THEN ParseFailure(SrecParseException(line_number))
    ELSE
    LET type       == char_to_type(line[2])
        byte_count == parse_hex_byte(line, 2)
    IN
    IF type = "" \/ byte_count < 0
    THEN ParseFailure(SrecParseException(0))
    ELSE IF Len(line) # 4 + (byte_count * 2)
    THEN ParseFailure(SrecParseException(line_number))
    ELSE
    LET ab   == address_bytes(type)
        addr == [i \in 1..ab |-> parse_hex_byte(line, 4 + ((i - 1) * 2))]
        data_start_offset == 4 + (2 * ab)
        data_bytes == byte_count - ab - 1
    IN
    IF \E i \in 1..ab : addr[i] < 0
    THEN ParseFailure(SrecParseException(0))
    ELSE IF data_bytes < 0
    THEN [ok |-> TRUE, err |-> NoError,
          record |-> [type |-> type, address |-> ShiftOr(addr), data |-> <<>>,
                      checksum |-> addr[ab], checksum_valid |-> TRUE,
                      line_number |-> line_number]]
    ELSE
    LET data == [i \in 1..data_bytes |->
                    parse_hex_byte(line, data_start_offset + ((i - 1) * 2))]
        cks  == parse_hex_byte(line, data_start_offset + (data_bytes * 2))
        calculated_checksum == parse_checksum(byte_count, addr, data)
    IN
    IF (\E i \in 1..data_bytes : data[i] < 0) \/ cks < 0
    THEN ParseFailure(SrecParseException(0))
    ELSE IF validate_checksum /\ calculated_checksum # cks
    THEN ParseFailure(SrecValidationException("CHECKSUM_MISMATCH"))
    ELSE [ok |-> TRUE, err |-> NoError,
          record |-> [type |-> type, address |-> ShiftOr(addr), data |-> data,
                      checksum |-> cks, checksum_valid |-> TRUE,
                      line_number |-> line_number]]

\* SrecStreamParser::parse_line(line, line_number, validate_checksum):
\* [ok, record] or [ok = FALSE, err]
parse_line(line, line_number, validate_checksum) ==
    IF line = <<>> \/ line[1] # 83
    THEN ParseFailure(SrecParseException(line_number))
    ELSE IF Len(line) < 6
    THEN ParseFailure(SrecParseException(line_number))
    ELSE
    LET type       == char_to_type(line[2])
        byte_count == parse_hex_byte(line, 2)
    IN
    IF type = "" \/ byte_count < 0
    THEN ParseFailure(SrecParseException(0))
    ELSE IF Len(line) # 4 + (byte_count * 2)
    THEN ParseFailure(SrecParseException(line_number))
    ELSE
    LET ab   == address_bytes(type)
        addr == [i \in 1..ab |-> parse_hex_byte(line, 4 + ((i - 1) * 2))]
        data_start_offset == 4 + (2 * ab)
        data_bytes == byte_count - ab - 1
    IN
    IF \E i \in 1..ab : addr[i] < 0
    THEN ParseFailure(SrecParseException(0))
    ELSE IF data_bytes < 0
    \* size_t wraps and record.data.reserve throws std::length_error, which
    \* the handler turns into a parse error of this line
    THEN ParseFailure(SrecParseException(line_number))
    ELSE
    LET data == [i \in 1..data_bytes |->
                    parse_hex_byte(line, data_start_offset + ((i - 1) * 2))]
        cks  == parse_hex_byte(line, data_start_offset + (data_bytes * 2))
        calculated_checksum == parse_checksum(byte_count, addr, data)
    IN
    IF (\E i \in 1..data_bytes : data[i] < 0) \/ cks < 0
    THEN ParseFailure(SrecParseException(0))
    ELSE IF validate_checksum /\ calculated_checksum # cks
    THEN ParseFailure(SrecValidationException("CHECKSUM_MISMATCH"))
    ELSE [ok |-> TRUE, err |-> NoError,
          record |-> [type |-> type, address |-> ShiftOr(addr), data |-> data,
                      checksum |-> cks, checksum_valid |-> TRUE,
                      line_number |-> line_number]]

-----------------------------------------------------------------------------
(* Inputs of the record model and of the line parser.                      *)

ByteVals == {0, 1, 255}

RECURSIVE SeqsUpTo(_, _)
SeqsUpTo(S, n) ==
    IF n = 0 THEN {<<>>}
    ELSE LET shorter == SeqsUpTo(S, n - 1)
         IN  shorter \cup {Append(s, b) : s \in {t \in shorter : Len(t) = n - 1},
                                          b \in S}

\* a payload of n bytes that are not all the same
Fill(n) == [i \in 1..n |-> ((i * 37) + 11) % 256]

\* lengths around the largest record: 250 + 4, 251 + 3 and 252 + 2 address
\* bytes are 254 bytes of record data
LongLens == {249, 250, 251, 252, 253}

ShortDatas == SeqsUpTo(ByteVals, MaxData) \cup {<<1, 2, 3>>}

Datas == ShortDatas \cup {Fill(n) : n \in LongLens}

\* 0, 0x1000, and the ends of the 16, 24 and 32 bit ranges
Addresses ==
    {WOf(0), WOf(4096), WOf(MAX_ADDR16), WOf(MAX_ADDR16 + 1), WOf(MAX_ADDR24),
     WOf(MAX_ADDR24 + 1), <<32768, 0>>, UINT32_MAX}

Records ==
    {[type |-> t, address |-> a, data |-> d] :
        t \in {"S1", "S2", "S3"}, a \in Addresses, d \in Datas}
    \cup {[type |-> "S0", address |-> WOf(0), data |-> d] : d \in Datas}
    \cup {[type |-> t, address |-> a, data |-> <<>>] :
            t \in {"S5", "S6", "S7", "S8", "S9"}, a \in Addresses}

\* the addresses of the lines to parse
ParseAddresses == {WOf(4096), WOf(MAX_ADDR16), WOf(MAX_ADDR24), UINT32_MAX}

\* the records a line to parse is made from
ParseRecords ==
    {r \in Records : /\ r.data \in ShortDatas
                     /\ r.address \in ParseAddresses \/ r.type = "S0"
                     /\ Construct(r.type, r.address).kind = "none"}

\* the line with the hex letters 'A'..'F' after the record type in lower case
LowerHex(line) ==
    [i \in 1..Len(line) |->
        IF i > 2 /\ line[i] >= 65 /\ line[i] <= 70 THEN line[i] + 32
        ELSE line[i]]

MutChars == {Ord["0"], Ord["F"], Ord["a"], Ord["G"]}

NoMutation == [kind |-> "none", pos |-> 0, ch |-> 0]

\* the ways a formatted line is changed before it is parsed
Mutations(line) ==
    {NoMutation, [kind |-> "lower", pos |-> 0, ch |-> 0],
     [kind |-> "cut", pos |-> 1, ch |-> 0], [kind |-> "cut", pos |-> 2, ch |-> 0]}
    \cup {[kind |-> "set", pos |-> i, ch |-> c] :
            i \in 1..Len(line), c \in MutChars}

Mutate(line, mut) ==
    CASE mut.kind = "none" -> line
      [] mut.kind = "lower" -> LowerHex(line)
      [] mut.kind = "cut" -> SubSeq(line, 1, Len(line) - mut.pos)
      [] mut.kind = "set" -> [line EXCEPT ![mut.pos] = mut.ch]

\* lines that are no formatted record
LiteralLines ==
    {<<>>, Str(<<"S">>), Str(<<"S", "1">>), Str(<<"S", "1", "0", "0">>),
     Str(<<"S", "1", "0", "0", "F">>), Str(<<"X", "1", "0", "1", "F", "E">>),
     Str(<<"s", "1", "0", "1", "F", "E">>), Str(<<"S", "1", "0", "1", "F", "E">>),
     Str(<<"S", "4", "0", "1", "F", "E">>), Str(<<"S", "3", "0", "1", "F", "E">>),
     Str(<<"S", "1", "0", "2", "0", "0", "F", "D">>),
     Str(<<"S", "2", "0", "2", "0", "0", "F", "D">>),
     Str(<<"S", "2", "0", "3", "0", "0", "0", "0", "F", "C">>),
     Str(<<"S", "3", "0", "4", "0", "0", "0", "0", "0", "0", "0", "0">>),
     Str(<<"S", "3", "0", "3", "0", "0", "0", "0", "0", "0">>)}

\* the (line_number, validate_checksum) arguments of parse_line
ParseArgs == {<<1, TRUE>>, <<7, TRUE>>, <<7, FALSE>>}

NoRec == [type |-> "", address |-> <<0, 0>>, data |-> <<>>]

FmtIdle ==
    [op |-> "none", rec |-> NoRec, ctor |-> NoError, mut |-> NoMutation,
     base |-> <<>>, line |-> <<>>, line_number |-> 0, validate |-> FALSE,
     res |-> ParseFailure(NoError)]

\* the files of the model: the output of a session, and the temporary
\* file write_checksum makes beside it
Paths == {"out.srec", "out.srec.tmp"}

Absent == [exists |-> FALSE, lines |-> <<>>]

EmptyFile == [exists |-> TRUE, lines |-> <<>>]

NoFiles == [p \in Paths |-> Absent]

\* the ghost record of a session: its start address, the successful
\* write_record_payload calls and the bytes they took, the calls made
HistIdle == [start |-> <<0, 0>>, n_ok |-> 0, total_len |-> 0, calls |-> 0]

\* the ghost record of the last call: its arguments, what it threw, what
\* it returned, and the session as the call found it
LastIdle ==
    [op |-> "none", buffer |-> <<>>, texts |-> <<>>, err |-> NoError,
     before |-> [is_open |-> FALSE, address |-> <<0, 0>>,
                 exec_address |-> <<0, 0>>, record_count |-> 0,
                 address_size_bits |-> "BITS16", file |-> Absent],
     result |-> 0]

\* the writer session of the specifications that use none
SessionIdle ==
    /\ filename = "" /\ is_open = FALSE
    /\ address = <<0, 0>> /\ exec_address = <<0, 0>>
    /\ address_size_bits = "BITS16" /\ record_count = 0
    /\ fs = NoFiles /\ prior = 0 /\ hist = HistIdle /\ last = LastIdle

\* the temporary file of write_checksum: filename + ".tmp"
TmpName(f) == f \o ".tmp"

\* a conversion that has not begun
ConvIdle ==
    [pc |-> "off", api |-> "", input |-> <<>>, start |-> <<0, 0>>,
     opened |-> FALSE, want_checksum |-> FALSE, cb |-> "none",
     buffer_size |-> 0, chunk_size |-> 0, total_bytes |-> 0, pos |-> 0,
     bytes_processed |-> 0, cb_calls |-> 0, crc_sum |-> <<0, 0>>,
     plain |-> <<>>, err |-> NoError, output |-> <<>>, dline |-> 0,
     derr |-> NoError]

\* a parse_stream run that has not begun: the lines of the stream, the
\* arguments, the count of lines read, and as ghosts the calls of the
\* callback (the line parsed and the record passed) and what was thrown
ScanIdle ==
    [pc |-> "off", lines |-> <<>>, validate_checksums |-> FALSE,
     stop_at |-> 0, line_number |-> 0, calls |-> <<>>, err |-> NoError]

-----------------------------------------------------------------------------
(* The record model and the line parser as a state machine: each step      *)
(* constructs and formats one record, or parses one line.                  *)

InitFormat == SessionIdle /\ fmt = FmtIdle /\ conv = ConvIdle /\ scan = ScanIdle

\* Srec<k>(addr, data) followed by toString()
FormatRecord ==
    /\ fmt.op = "none"
    /\ UNCHANGED <<sessionVars, conv, scan>>
    /\ \E rec \in Records :
        LET ctor == Construct(rec.type, rec.address)
            out  == IF ctor.kind = "none" THEN toString(rec)
                    ELSE [ok |-> FALSE, err |-> ctor, line |-> <<>>]
        IN  fmt' = [FmtIdle EXCEPT !.op = "toString", !.rec = rec, !.ctor = ctor,
                                   !.line = out.line,
                                   !.res = [ok |-> out.ok, err |-> out.err,
                                            record |-> NoRecord]]

\* parse_line on the line of a record, changed or not
ParseFormatted ==
    /\ fmt.op = "none"
    /\ UNCHANGED <<sessionVars, conv, scan>>
    /\ \E rec \in ParseRecords, args \in ParseArgs :
        LET base == toString(rec).line
        IN  \E mut \in Mutations(base) :
                LET line == Mutate(base, mut)
                IN  fmt' = [FmtIdle EXCEPT !.op = "parse_line", !.rec = rec,
                                           !.mut = mut, !.base = base,
                                           !.line = line,
                                           !.line_number = args[1],
                                           !.validate = args[2],
                                           !.res = parse_line(line, args[1],
                                                              args[2])]

\* parse_line on a line that is no formatted record
ParseLiteral ==
    /\ fmt.op = "none"
    /\ UNCHANGED <<sessionVars, conv, scan>>
    /\ \E line \in LiteralLines, args \in ParseArgs :
        fmt' = [FmtIdle EXCEPT !.op = "parse_literal", !.line = line,
                               !.line_number = args[1], !.validate = args[2],
                               !.res = parse_line(line, args[1], args[2])]

\* the records with a payload around the largest that toString() formats
LongRecords ==
    {r \in Records : /\ r.data \notin ShortDatas
                     /\ Construct(r.type, r.address).kind = "none"
                     /\ toString(r).ok}

\* parse_line on the unchanged line of a record around the largest size
ParseLong ==
    /\ fmt.op = "none"
    /\ UNCHANGED <<sessionVars, conv, scan>>
    /\ \E rec \in LongRecords, args \in ParseArgs :
        LET line == toString(rec).line
        IN  fmt' = [FmtIdle EXCEPT !.op = "parse_line", !.rec = rec,
                                   !.base = line, !.line = line,
                                   !.line_number = args[1],
                                   !.validate = args[2],
                                   !.res = parse_line(line, args[1], args[2])]

NextFormat == FormatRecord \/ ParseFormatted \/ ParseLong \/ ParseLiteral

SpecFormat == InitFormat /\ [][NextFormat]_vars

-----------------------------------------------------------------------------
(* The writer session SrecFile.                                            *)

AddressSizes == {"BITS16", "BITS24", "BITS32"}

\* SrecFile::max_data_bytes_per_record
max_data_bytes_per_record(bits) ==
    CASE bits = "BITS16" -> 255 - 1 - 4 - 1
      [] bits = "BITS24" -> 255 - 1 - 6 - 1
      [] bits = "BITS32" -> 255 - 1 - 8 - 1
      [] OTHER -> 0

\* the record type write_record_payload makes for an address size
DataType(bits) ==
    CASE bits = "BITS16" -> "S1" [] bits = "BITS24" -> "S2"
      [] bits = "BITS32" -> "S3"

\* a variant of TerminationType with S9 and S7 exchanged
TerminationTypeMutSwapped(bits) ==
    CASE bits = "BITS16" -> "S7" [] bits = "BITS24" -> "S8"
      [] bits = "BITS32" -> "S9"

\* the record type write_record_termination makes for an address size
TerminationType(bits) ==
    CASE bits = "BITS16" -> "S9" [] bits = "BITS24" -> "S8"
      [] bits = "BITS32" -> "S7"

\* a variant of CountType that never takes S6
CountTypeMutAlwaysS5(count) == "S5"

\* the record type write_record_count makes for a record count
CountType(count) == IF count <= MAX_ADDR16 THEN "S5" ELSE "S6"

Thrown(err) == [ok |-> FALSE, err |-> err, line |-> <<>>]

\* std::make_unique<Srec<k>>(addr, data) followed by toString()
Emit(type, addr, data) ==
    LET ctor == Construct(type, addr)
    IN  IF ctor.kind # "none" THEN Thrown(ctor)
        ELSE toString([type |-> type, address |-> addr, data |-> data])

\* a variant of Advance that leaves the address where it is
AdvanceMutStay(addr, n) == addr

\* this->address += buffer.size()
Advance(addr, n) == WUint32(WAdd(addr, n))

\* a variant of PayloadOutcome without the limit of the record count
PayloadOutcomeMutNoLimit(open, fname, count, addr, bits, buffer) ==
    IF ~open THEN Thrown(SrecFileException(fname))
    ELSE IF Len(buffer) > 0 /\ WGt(addr, WSub(UINT32_MAX, Len(buffer)))
    THEN Thrown(SrecAddressException(WAdd(addr, Len(buffer)), UINT32_MAX))
    ELSE Emit(DataType(bits), addr, buffer)

\* what write_record_payload throws, or the line it writes
PayloadOutcome(open, fname, count, addr, bits, buffer) ==
    IF ~open THEN Thrown(SrecFileException(fname))
    ELSE IF count >= MAX_RECORD_COUNT
    THEN Thrown(SrecValidationException("DATA_TOO_LARGE"))
    ELSE IF Len(buffer) > 0 /\ WGt(addr, WSub(UINT32_MAX, Len(buffer)))
    THEN Thrown(SrecAddressException(WAdd(addr, Len(buffer)), UINT32_MAX))
    ELSE Emit(DataType(bits), addr, buffer)

\* what write_record_count throws, or the line it writes
CountOutcome(open, fname, count) ==
    IF ~open THEN Thrown(SrecFileException(fname))
    ELSE IF count > MAX_ADDR24
    THEN Thrown(SrecValidationException("DATA_TOO_LARGE"))
    ELSE Emit(CountType(count), WOf(count), <<>>)

\* a variant of TerminationOutcome without the test of is_open
TerminationOutcomeMutNoOpenCheck(open, fname, exec, bits) ==
    Emit(TerminationType(bits), exec, <<>>)

\* what write_record_termination throws, or the line it writes
TerminationOutcome(open, fname, exec, bits) ==
    IF ~open THEN Thrown(SrecFileException(fname))
    ELSE Emit(TerminationType(bits), exec, <<>>)

\* what write_header(std::vector<uint8_t>) throws, or the line it writes
HeaderOutcome(open, fname, header_data) ==
    IF ~open THEN Thrown(SrecFileException(fname))
    ELSE Emit("S0", WOf(0), header_data)

\* ASCIIToHexString: two upper-case hex digits for each character
ASCIIToHexString(buffer) == HexBytesOut(buffer)

\* the loop of write_header(std::vector<std::string>): the lines written
\* until a record throws, and what it threw
RECURSIVE HeaderLoop(_)
HeaderLoop(texts) ==
    IF texts = <<>> THEN [err |-> NoError, lines |-> <<>>]
    ELSE LET out == Emit("S0", WOf(0), ASCIIToHexString(Head(texts)))
         IN  IF ~out.ok THEN [err |-> out.err, lines |-> <<>>]
             ELSE LET rest == HeaderLoop(Tail(texts))
                  IN  [err |-> rest.err, lines |-> <<out.line>> \o rest.lines]

HeaderTextOutcome(open, fname, texts) ==
    IF ~open THEN [err |-> SrecFileException(fname), lines |-> <<>>]
    ELSE HeaderLoop(texts)

(* Inputs of the writer session.                                           *)

\* the lengths of the buffers written: none, short, and around the longest
\* record of each address size
BufferLens == {0, 2, 250, 251, 252, 253}

Buffers == {Fill(n) : n \in BufferLens}

\* "Hi", and a header too long for one record
HeaderBytes == {<<72, 105>>, Fill(253)}

\* {"Hi"}, and {"H", a text too long for one record}
HeaderTexts == {<< <<72, 105>> >>, << <<72>>, [i \in 1..127 |-> 65] >>}

StartAddresses ==
    {WOf(0), WOf(MAX_ADDR16), WOf(MAX_ADDR16 + 1), WOf(MAX_ADDR24),
     WOf(MAX_ADDR24 + 1), <<65535, 65534>>}

\* a session is taken up right after its construction, or after `prior`
\* calls write_record_payload({}) that each wrote an empty data record at
\* address 0; the lines of these calls are counted in prior, not kept in fs
PriorCounts == {MAX_ADDR16, MAX_RECORD_COUNT - 1}

Sessions ==
    {[bits |-> b, start |-> s, prior |-> 0, opened |-> TRUE] :
        b \in AddressSizes, s \in StartAddresses}
    \cup {[bits |-> b, start |-> WOf(0), prior |-> p, opened |-> TRUE] :
            b \in AddressSizes, p \in PriorCounts}
    \cup {[bits |-> "BITS16", start |-> WOf(0), prior |-> 0, opened |-> FALSE]}

\* the session and its file as a call finds them
Snapshot ==
    [is_open |-> is_open, address |-> address, exec_address |-> exec_address,
     record_count |-> record_count, address_size_bits |-> address_size_bits,
     file |-> fs[filename]]

-----------------------------------------------------------------------------
(* The writer session as a state machine: a session is constructed and     *)
(* then takes at most MaxOps calls.                                        *)

\* SrecFile::SrecFile(file_name, address_size, start_address): file.open
\* truncates or creates the file, or fails and leaves the session closed
Init ==
    /\ \E s \in Sessions :
        /\ filename = "out.srec"
        /\ is_open = s.opened
        /\ address = s.start
        /\ exec_address = s.start
        /\ address_size_bits = s.bits
        /\ record_count = s.prior
        /\ prior = s.prior
        /\ fs = [NoFiles EXCEPT !["out.srec"] =
                    IF s.opened THEN EmptyFile ELSE Absent]
        /\ hist = [HistIdle EXCEPT !.start = s.start, !.n_ok = s.prior]
    /\ last = LastIdle
    /\ fmt = FmtIdle
    /\ conv = ConvIdle
    /\ scan = ScanIdle

\* the ghost record of a call
Called(op, buffer, texts, err, result) ==
    last' = [op |-> op, buffer |-> buffer, texts |-> texts, err |-> err,
             before |-> Snapshot, result |-> result]

AppendLines(ls) == [fs EXCEPT ![filename].lines = @ \o ls]

\* a variant of write_record_payload that counts the record before it is
\* built and written
write_record_payloadMutCountsFirst ==
    /\ hist.calls < MaxOps
    /\ \E buffer \in Buffers :
        LET out == PayloadOutcome(is_open, filename, record_count, address,
                                  address_size_bits, buffer)
        IN  /\ IF out.ok
               THEN /\ fs' = AppendLines(<<out.line>>)
                    /\ address' = Advance(address, Len(buffer))
               ELSE UNCHANGED <<fs, address>>
            /\ record_count' = record_count + 1
            /\ hist' = [hist EXCEPT
                          !.calls = @ + 1,
                          !.n_ok = IF out.ok THEN @ + 1 ELSE @,
                          !.total_len = IF out.ok THEN @ + Len(buffer) ELSE @]
            /\ Called("write_record_payload", buffer, <<>>, out.err, 0)
    /\ UNCHANGED <<filename, is_open, exec_address, address_size_bits, prior,
                   fmt, conv, scan>>

\* SrecFile::write_record_payload(buffer)
write_record_payload ==
    /\ hist.calls < MaxOps
    /\ \E buffer \in Buffers :
        LET out == PayloadOutcome(is_open, filename, record_count, address,
                                  address_size_bits, buffer)
        IN  /\ IF out.ok
               THEN /\ fs' = AppendLines(<<out.line>>)
                    /\ record_count' = record_count + 1
                    /\ address' = Advance(address, Len(buffer))
               ELSE UNCHANGED <<fs, record_count, address>>
            /\ hist' = [hist EXCEPT
                          !.calls = @ + 1,
                          !.n_ok = IF out.ok THEN @ + 1 ELSE @,
                          !.total_len = IF out.ok THEN @ + Len(buffer) ELSE @]
            /\ Called("write_record_payload", buffer, <<>>, out.err, 0)
    /\ UNCHANGED <<filename, is_open, exec_address, address_size_bits, prior,
                   fmt, conv, scan>>

\* a variant of write_header that counts the header as a record
write_headerMutCounts ==
    /\ hist.calls < MaxOps
    /\ \E header_data \in HeaderBytes :
        LET out == HeaderOutcome(is_open, filename, header_data)
        IN  /\ fs' = IF out.ok THEN AppendLines(<<out.line>>) ELSE fs
            /\ record_count' = IF out.ok THEN record_count + 1 ELSE record_count
            /\ Called("write_header", header_data, <<>>, out.err, 0)
    /\ hist' = [hist EXCEPT !.calls = @ + 1]
    /\ UNCHANGED <<filename, is_open, address, exec_address, address_size_bits,
                   prior, fmt, conv, scan>>

\* SrecFile::write_header(const std::vector<uint8_t> &)
write_header ==
    /\ hist.calls < MaxOps
    /\ \E header_data \in HeaderBytes :
        LET out == HeaderOutcome(is_open, filename, header_data)
        IN  /\ fs' = IF out.ok THEN AppendLines(<<out.line>>) ELSE fs
            /\ Called("write_header", header_data, <<>>, out.err, 0)
    /\ hist' = [hist EXCEPT !.calls = @ + 1]
    /\ UNCHANGED <<filename, is_open, address, exec_address, address_size_bits,
                   record_count, prior, fmt, conv, scan>>

\* SrecFile::write_header(const std::vector<std::string> &)
write_header_text ==
    /\ hist.calls < MaxOps
    /\ \E texts \in HeaderTexts :
        LET out == HeaderTextOutcome(is_open, filename, texts)
        IN  /\ fs' = IF out.lines # <<>> THEN AppendLines(out.lines) ELSE fs
            /\ Called("write_header_text", <<>>, texts, out.err, 0)
    /\ hist' = [hist EXCEPT !.calls = @ + 1]
    /\ UNCHANGED <<filename, is_open, address, exec_address, address_size_bits,
                   record_count, prior, fmt, conv, scan>>

\* SrecFile::write_record_count()
write_record_count ==
    /\ hist.calls < MaxOps
    /\ LET out == CountOutcome(is_open, filename, record_count)
       IN  /\ fs' = IF out.ok THEN AppendLines(<<out.line>>) ELSE fs
           /\ Called("write_record_count", <<>>, <<>>, out.err, 0)
    /\ hist' = [hist EXCEPT !.calls = @ + 1]
    /\ UNCHANGED <<filename, is_open, address, exec_address, address_size_bits,
                   record_count, prior, fmt, conv, scan>>

\* SrecFile::write_record_termination()
write_record_termination ==
    /\ hist.calls < MaxOps
    /\ LET out == TerminationOutcome(is_open, filename, exec_address,
                                     address_size_bits)
       IN  /\ fs' = IF out.ok THEN AppendLines(<<out.line>>) ELSE fs
           /\ Called("write_record_termination", <<>>, <<>>, out.err, 0)
    /\ hist' = [hist EXCEPT !.calls = @ + 1]
    /\ UNCHANGED <<filename, is_open, address, exec_address, address_size_bits,
                   record_count, prior, fmt, conv, scan>>

\* a variant of close that opens a closed session again
closeMutToggles ==
    /\ hist.calls < MaxOps
    /\ is_open' = ~is_open
    /\ Called("close", <<>>, <<>>, NoError, 0)
    /\ hist' = [hist EXCEPT !.calls = @ + 1]
    /\ UNCHANGED <<filename, address, exec_address, address_size_bits,
                   record_count, fs, prior, fmt, conv, scan>>

\* SrecFile::close(): flush and close; on a closed stream both only set
\* its failbit
close ==
    /\ hist.calls < MaxOps
    /\ is_open' = FALSE
    /\ Called("close", <<>>, <<>>, NoError, 0)
    /\ hist' = [hist EXCEPT !.calls = @ + 1]
    /\ UNCHANGED <<filename, address, exec_address, address_size_bits,
                   record_count, fs, prior, fmt, conv, scan>>

\* a call of max_data_bytes_per_record(), which is const
max_data_bytes ==
    /\ hist.calls < MaxOps
    /\ Called("max_data_bytes_per_record", <<>>, <<>>, NoError,
              max_data_bytes_per_record(address_size_bits))
    /\ hist' = [hist EXCEPT !.calls = @ + 1]
    /\ UNCHANGED <<filename, is_open, address, exec_address, address_size_bits,
                   record_count, fs, prior, fmt, conv, scan>>

Next ==
    \/ write_record_payload
    \/ write_header
    \/ write_header_text
    \/ write_record_count
    \/ write_record_termination
    \/ close
    \/ max_data_bytes

Spec == Init /\ [][Next]_vars

-----------------------------------------------------------------------------
(* The converters: convert_stream / convert_bin_to_srec with               *)
(* write_checksum, and convert_srec_to_bin.                                *)

Min(a, b) == IF a < b THEN a ELSE b

\* the exclusive or of two numbers
Xor[a \in Nat, b \in Nat] ==
    IF a = 0 THEN b
    ELSE IF b = 0 THEN a
    ELSE (2 * Xor[a \div 2, b \div 2]) + ((a + b) % 2)

XorW(a, b) == <<Xor[a[1], b[1]], Xor[a[2], b[2]]>>

\* one bit of the CRC-32 of polynomial 0x04C11DB7, most significant bit
\* first (a function, so that its argument is evaluated once)
CrcBit[c \in (0..65535) \X (0..65535)] ==
    LET shifted == <<((c[1] * 2) + (c[2] \div 32768)) % 65536,
                     (c[2] * 2) % 65536>>
    IN  IF c[1] >= 32768 THEN XorW(shifted, <<1217, 7607>>) ELSE shifted

RECURSIVE CrcBits(_, _)
CrcBits(c, n) == IF n = 0 THEN c ELSE CrcBits(CrcBit[c], n - 1)

\* xcrc32(buf, len, init): the running CRC-32 over the bytes of buf (the
\* buffer is split in halves to keep the evaluation shallow)
RECURSIVE xcrc32(_, _)
xcrc32(buf, init) ==
    IF buf = <<>> THEN init
    ELSE IF Len(buf) = 1
    THEN CrcBits(XorW(init, <<buf[1] * 256, 0>>), 8)
    ELSE LET m    == Len(buf) \div 2
             left == xcrc32(SubSeq(buf, 1, m), init)
         IN  \* the test makes the first half be computed before the second
             IF left[1] >= 0 THEN xcrc32(SubSeq(buf, m + 1, Len(buf)), left)
             ELSE left

\* a variant of ReadChunk that loses the last byte of a chunk
ReadChunkMutShort(input, pos, n) == SubSeq(input, pos + 1, pos + n - 1)

\* input.read(buffer.data(), buffer.size()): the bytes of one chunk
ReadChunk(input, pos, n) == SubSeq(input, pos + 1, pos + n)

\* std::isspace in the "C" locale
IsSpace(c) == c = 32 \/ (c >= 9 /\ c <= 13)

\* std::stoi(s, nullptr, 16) for a text of one or two characters: blanks,
\* a sign and the hex digits that follow; no digit is std::invalid_argument
stoi(s) ==
    LET d(i) == hex_char_to_byte(s[i])
        bad  == [ok |-> FALSE, value |-> 0]
        val(v) == [ok |-> TRUE, value |-> v]
    IN  IF s = <<>> THEN bad
        ELSE IF Len(s) = 1 THEN (IF d(1) >= 0 THEN val(d(1)) ELSE bad)
        ELSE IF IsSpace(s[1]) THEN (IF d(2) >= 0 THEN val(d(2)) ELSE bad)
        ELSE IF s[1] = 43 THEN (IF d(2) >= 0 THEN val(d(2)) ELSE bad)
        ELSE IF s[1] = 45 THEN (IF d(2) >= 0 THEN val(0 - d(2)) ELSE bad)
        ELSE IF d(1) < 0 THEN bad
        ELSE IF d(2) >= 0 THEN val((16 * d(1)) + d(2))
        ELSE val(d(1))

\* the loop over the data of a line: static_cast<uint8_t>(std::stoi(...))
\* for each pair, the bytes written until a pair throws (the data is split
\* in halves of whole pairs to keep the evaluation shallow)
RECURSIVE DecodeData(_)
DecodeData(data) ==
    IF data = <<>> THEN [ok |-> TRUE, bytes |-> <<>>]
    ELSE IF Len(data) <= 2
    THEN LET r == stoi(data)
         IN  IF r.ok THEN [ok |-> TRUE, bytes |-> <<r.value % 256>>]
             ELSE [ok |-> FALSE, bytes |-> <<>>]
    ELSE LET m     == 2 * (((Len(data) + 1) \div 2) \div 2)
             first == DecodeData(SubSeq(data, 1, m))
         IN  IF ~first.ok THEN first
             ELSE LET rest == DecodeData(SubSeq(data, m + 1, Len(data)))
                  IN  [ok |-> rest.ok, bytes |-> first.bytes \o rest.bytes]

\* a variant of DecodeLineOutcome that takes the lines of every record type
DecodeLineOutcomeMutAnyType(line) ==
    IF line = <<>> \/ line[1] # 83 \/ Len(line) < 2
       \/ char_to_type(line[2]) = ""
    THEN [err |-> NoError, bytes |-> <<>>]
    ELSE LET ADDRESS_SIZE == address_bytes(char_to_type(line[2]))
             start == 4 + (ADDRESS_SIZE * 2)
         IN  IF start > Len(line)
             THEN [err |-> StdException("out_of_range"), bytes |-> <<>>]
             ELSE LET rest == SubSeq(line, start + 1, Len(line))
                      data == IF Len(rest) < 2 THEN rest
                              ELSE SubSeq(rest, 1, Len(rest) - 2)
                      r    == DecodeData(data)
                  IN  [err |-> IF r.ok THEN NoError
                               ELSE StdException("ios_base::failure"),
                       bytes |-> r.bytes]

\* what convert_srec_to_bin does with one line: the bytes it writes, and
\* what it throws (line.substr past the end is std::out_of_range)
DecodeLineOutcome(line) ==
    IF line = <<>> \/ line[1] # 83 \/ Len(line) < 2
       \/ line[2] \notin {49, 50, 51}
    THEN [err |-> NoError, bytes |-> <<>>]
    ELSE LET ADDRESS_SIZE == address_bytes(char_to_type(line[2]))
             start == 4 + (ADDRESS_SIZE * 2)
         IN  IF start > Len(line)
             THEN [err |-> StdException("out_of_range"), bytes |-> <<>>]
             ELSE LET rest == SubSeq(line, start + 1, Len(line))
                      \* data.size() - 2 wraps below 2 and nothing is cut
                      data == IF Len(rest) < 2 THEN rest
                              ELSE SubSeq(rest, 1, Len(rest) - 2)
                      r    == DecodeData(data)
                  IN  [err |-> IF r.ok THEN NoError
                               ELSE StdException("ios_base::failure"),
                       bytes |-> r.bytes]

(* Inputs of a conversion.                                                 *)

\* binary inputs: all the short ones, and one of two full records
ConvInputs == SeqsUpTo({0, 171}, MaxInput) \cup {Fill(250)}

ConvStarts == {WOf(0), WOf(MAX_ADDR16), WOf(MAX_ADDR24), <<65535, 65534>>}

\* the buffer_size argument: none, one byte, two bytes, more than a record
\* holds
BufferSizes == {0, 1, 2, 300}

\* no progress callback, one that returns true, one that returns false,
\* one that returns true once and then false
Callbacks == {"none", "continue", "cancel", "cancel_second"}

\* a variant of progress_callback that never asks to stop
progress_callbackMutTrue(cb, n) == TRUE

\* what the progress callback returns when it is invoked for the n-th time
progress_callback(cb, n) ==
    cb = "continue" \/ (cb = "cancel_second" /\ n < 2)

\* the turns of the loop that are followed when the chunk size is 0: the
\* read of no bytes never fails, and the loop goes on to the record limit
MaxEmptyTurns == 3

ConvConfigs ==
    {[api |-> "convert_stream", bits |-> b, start |-> s, want_checksum |-> w,
      buffer_size |-> n, cb |-> c, opened |-> TRUE] :
        b \in AddressSizes, s \in ConvStarts, w \in BOOLEAN,
        n \in BufferSizes, c \in Callbacks}
    \cup {[api |-> "convert_bin_to_srec", bits |-> b, start |-> s,
           want_checksum |-> w, buffer_size |-> 0, cb |-> "none",
           opened |-> TRUE] :
            b \in AddressSizes, s \in ConvStarts, w \in BOOLEAN}
    \cup {[api |-> a, bits |-> "BITS16", start |-> WOf(0),
           want_checksum |-> FALSE, buffer_size |-> 1, cb |-> "none",
           opened |-> FALSE] :
            a \in {"convert_stream", "convert_bin_to_srec"}}

-----------------------------------------------------------------------------
(* A conversion as a state machine: the binary input is encoded chunk by   *)
(* chunk, the file is finished, and the file is decoded line by line.      *)

InitConvert == SessionIdle /\ fmt = FmtIdle /\ conv = ConvIdle /\ scan = ScanIdle

Failed(err) == [conv EXCEPT !.pc = "failed", !.err = err]

\* the SrecFile of the conversion is constructed: by convert_stream, which
\* throws when the file is not open, or by the caller of convert_bin_to_srec
ConvOpenWith(configs, inputs) ==
    /\ conv.pc = "off"
    /\ \E cfg \in configs, input \in inputs :
        /\ filename' = "out.srec"
        /\ is_open' = cfg.opened
        /\ address' = cfg.start
        /\ exec_address' = cfg.start
        /\ address_size_bits' = cfg.bits
        /\ record_count' = 0
        /\ fs' = [NoFiles EXCEPT !["out.srec"] =
                     IF cfg.opened THEN EmptyFile ELSE Absent]
        /\ LET max_record_size == max_data_bytes_per_record(cfg.bits)
               begun ==
                 [ConvIdle EXCEPT
                    !.pc = "loop", !.api = cfg.api, !.input = input,
                    !.start = cfg.start, !.opened = cfg.opened,
                    !.want_checksum = cfg.want_checksum, !.cb = cfg.cb,
                    !.buffer_size = cfg.buffer_size,
                    !.total_bytes = Len(input),
                    !.chunk_size =
                        IF cfg.api = "convert_stream"
                        THEN Min(cfg.buffer_size, max_record_size)
                        ELSE max_record_size]
           IN  conv' = IF cfg.api = "convert_stream" /\ ~cfg.opened
                       THEN [begun EXCEPT
                               !.pc = "failed",
                               !.err = SrecFileException("out.srec")]
                       ELSE begun
    /\ UNCHANGED <<prior, hist, last, fmt, scan>>

\* a conversion of any configuration and input begins
ConvOpen == ConvOpenWith(ConvConfigs, ConvInputs)

\* one turn of the loop: a chunk is read, written as a data record, added
\* to the CRC and reported to the progress callback; an exception leaves
\* convert_stream through the destructor of its SrecFile, which closes it
ConvChunk ==
    /\ conv.pc = "loop"
    /\ IF conv.chunk_size = 0 THEN record_count < MaxEmptyTurns
       ELSE conv.pos < Len(conv.input)
    /\ LET n      == Min(conv.chunk_size, Len(conv.input) - conv.pos)
           buffer == ReadChunk(conv.input, conv.pos, n)
           out    == PayloadOutcome(is_open, filename, record_count, address,
                                    address_size_bits, buffer)
           streaming == conv.api = "convert_stream"
           invoked   == out.ok /\ streaming /\ conv.cb # "none"
           cancelled == invoked
                        /\ ~progress_callback(conv.cb, conv.cb_calls + 1)
       IN  /\ IF out.ok
              THEN /\ fs' = AppendLines(<<out.line>>)
                   /\ record_count' = record_count + 1
                   /\ address' = Advance(address, Len(buffer))
              ELSE UNCHANGED <<fs, record_count, address>>
           /\ is_open' = IF (~out.ok \/ cancelled) /\ streaming THEN FALSE
                         ELSE is_open
           /\ conv' =
                IF ~out.ok THEN Failed(out.err)
                ELSE LET done ==
                           [conv EXCEPT
                              !.pos = @ + n,
                              !.bytes_processed = @ + n,
                              !.cb_calls = IF invoked THEN @ + 1 ELSE @,
                              !.crc_sum =
                                  IF conv.want_checksum \/ ~streaming
                                  THEN xcrc32(buffer, @) ELSE @]
                     IN  IF cancelled
                         THEN [done EXCEPT
                                 !.pc = "failed",
                                 !.err = SrecValidationException("USER_CANCELLED")]
                         ELSE done
    /\ UNCHANGED <<filename, exec_address, address_size_bits, prior, hist,
                   last, fmt, scan>>

\* a variant of ConvCount that goes on without the count record
ConvCountMutSkips ==
    /\ conv.pc = "loop"
    /\ conv.chunk_size > 0
    /\ conv.pos >= Len(conv.input)
    /\ conv' = [conv EXCEPT !.pc = "termination"]
    /\ UNCHANGED <<filename, is_open, address, exec_address,
                   address_size_bits, record_count, fs, prior, hist, last, fmt, scan>>

\* the read finds no more input, and the record count is written
ConvCount ==
    /\ conv.pc = "loop"
    /\ conv.chunk_size > 0
    /\ conv.pos >= Len(conv.input)
    /\ LET out == CountOutcome(is_open, filename, record_count)
       IN  /\ fs' = IF out.ok THEN AppendLines(<<out.line>>) ELSE fs
           /\ conv' = IF out.ok THEN [conv EXCEPT !.pc = "termination"]
                      ELSE Failed(out.err)
           /\ is_open' = IF ~out.ok /\ conv.api = "convert_stream" THEN FALSE
                         ELSE is_open
    /\ UNCHANGED <<filename, address, exec_address, address_size_bits,
                   record_count, prior, hist, last, fmt, scan>>

\* the termination record is written
ConvTermination ==
    /\ conv.pc = "termination"
    /\ LET out == TerminationOutcome(is_open, filename, exec_address,
                                     address_size_bits)
       IN  /\ fs' = IF out.ok THEN AppendLines(<<out.line>>) ELSE fs
           /\ conv' = IF out.ok THEN [conv EXCEPT !.pc = "close"]
                      ELSE Failed(out.err)
           /\ is_open' = IF ~out.ok /\ conv.api = "convert_stream" THEN FALSE
                         ELSE is_open
    /\ UNCHANGED <<filename, address, exec_address, address_size_bits,
                   record_count, prior, hist, last, fmt, scan>>

\* sfile.close()
ConvClose ==
    /\ conv.pc = "close"
    /\ is_open' = FALSE
    /\ conv' = [conv EXCEPT !.pc = IF conv.want_checksum THEN "checksum"
                                   ELSE "encoded"]
    /\ UNCHANGED <<filename, address, exec_address, address_size_bits,
                   record_count, fs, prior, hist, last, fmt, scan>>

\* a variant of crc32bytes with the least significant byte first
crc32bytesMutLittleEndian(sum) ==
    <<sum[2] % 256, sum[2] \div 256, sum[1] % 256, sum[1] \div 256, 0>>

\* the CRC as a byte vector: four bytes, the most significant first, and
\* a null byte
crc32bytes(sum) == AddressBytes4(sum) \o <<0>>

\* write_checksum, first step: a second SrecFile makes the temporary file
ConvTempCreate ==
    /\ conv.pc = "checksum"
    /\ fs' = [fs EXCEPT ![TmpName(filename)] = EmptyFile]
    /\ conv' = [conv EXCEPT !.pc = "header", !.plain = fs[filename].lines]
    /\ UNCHANGED <<filename, is_open, address, exec_address,
                   address_size_bits, record_count, prior, hist, last, fmt, scan>>

\* the S0 record of the CRC is written to the temporary file, which is
\* closed
ConvTempHeader ==
    /\ conv.pc = "header"
    /\ LET out == HeaderOutcome(TRUE, TmpName(filename),
                                crc32bytes(conv.crc_sum))
       IN  /\ fs' = IF out.ok
                    THEN [fs EXCEPT ![TmpName(filename)].lines =
                                        @ \o <<out.line>>]
                    ELSE fs
           /\ conv' = IF out.ok THEN [conv EXCEPT !.pc = "append"]
                      ELSE Failed(out.err)
    /\ UNCHANGED <<filename, is_open, address, exec_address,
                   address_size_bits, record_count, prior, hist, last, fmt, scan>>

\* a variant of ConvTempAppend that puts the header in front of the output
\* file in place
ConvTempAppendMutInPlace ==
    /\ conv.pc = "append"
    /\ fs' = [fs EXCEPT ![filename].lines =
                            fs[TmpName(filename)].lines \o @]
    /\ conv' = [conv EXCEPT !.pc = "rename"]
    /\ UNCHANGED <<filename, is_open, address, exec_address,
                   address_size_bits, record_count, prior, hist, last, fmt, scan>>

\* the output file is appended to the temporary file
ConvTempAppend ==
    /\ conv.pc = "append"
    /\ fs' = [fs EXCEPT ![TmpName(filename)].lines =
                            @ \o fs[filename].lines]
    /\ conv' = [conv EXCEPT !.pc = "rename"]
    /\ UNCHANGED <<filename, is_open, address, exec_address,
                   address_size_bits, record_count, prior, hist, last, fmt, scan>>

\* std::rename(tempfilename, filename)
ConvRename ==
    /\ conv.pc = "rename"
    /\ fs' = [fs EXCEPT ![filename] = fs[TmpName(filename)],
                        ![TmpName(filename)] = Absent]
    /\ conv' = [conv EXCEPT !.pc = "encoded"]
    /\ UNCHANGED <<filename, is_open, address, exec_address,
                   address_size_bits, record_count, prior, hist, last, fmt, scan>>

\* convert_srec_to_bin opens its input file: the file the encoding left,
\* whole or not, or a file of any lines
DecodeOpen ==
    /\ conv.pc \in {"encoded", "failed", "input"}
    /\ conv' = IF fs[filename].exists
               THEN [conv EXCEPT !.pc = "decode", !.dline = 1]
               ELSE [conv EXCEPT !.pc = "decode_failed",
                                 !.derr = StdException("ios_base::failure")]
    /\ UNCHANGED <<sessionVars, fmt, scan>>

\* one turn of the getline loop
DecodeLine ==
    /\ conv.pc = "decode"
    /\ conv.dline <= Len(fs[filename].lines)
    /\ LET out == DecodeLineOutcome(fs[filename].lines[conv.dline])
       IN  conv' = [conv EXCEPT
                      !.output = @ \o out.bytes,
                      !.dline = @ + 1,
                      !.derr = out.err,
                      !.pc = IF out.err.kind = "none" THEN "decode"
                             ELSE "decode_failed"]
    /\ UNCHANGED <<sessionVars, fmt, scan>>

\* getline finds no more line, and the files are closed
DecodeClose ==
    /\ conv.pc = "decode"
    /\ conv.dline > Len(fs[filename].lines)
    /\ conv' = [conv EXCEPT !.pc = "decoded"]
    /\ UNCHANGED <<sessionVars, fmt, scan>>

NextConvert ==
    \/ ConvOpen
    \/ ConvChunk
    \/ ConvCount
    \/ ConvTermination
    \/ ConvClose
    \/ ConvTempCreate
    \/ ConvTempHeader
    \/ ConvTempAppend
    \/ ConvRename
    \/ DecodeOpen
    \/ DecodeLine
    \/ DecodeClose

SpecConvert == InitConvert /\ [][NextConvert]_vars

-----------------------------------------------------------------------------
(* The stream parser: parse_stream reads the stream line by line.          *)

\* the characters of " \t\r\n"
Blanks == {32, 9, 13, 10}

\* line.find_first_not_of(" \t\r\n"), counted from 1; 0 stands for npos
find_first_not_of(line) ==
    LET S == {i \in 1..Len(line) : line[i] \notin Blanks}
    IN  IF S = {} THEN 0 ELSE CHOOSE i \in S : \A j \in S : i <= j

\* a variant of find_last_not_of that finds the last character
find_last_not_ofMutKeepsAll(line) == Len(line)

\* line.find_last_not_of(" \t\r\n") + 1: the characters that erase keeps
find_last_not_of(line) ==
    LET S == {i \in 1..Len(line) : line[i] \notin Blanks}
    IN  IF S = {} THEN 0 ELSE CHOOSE i \in S : \A j \in S : j <= i

\* a variant of rethrow that passes every exception on as it is
rethrowMutUnchanged(e, line_number) == e

\* the handler of parse_stream: a parse error without a line number is
\* thrown again with the number of the line, any other exception passes
rethrow(e, line_number) ==
    IF e.kind = "parse" /\ e.line_number = 0
    THEN SrecParseException(line_number)
    ELSE e

(* Inputs of a scan.                                                       *)

DataLine ==
    toString([type |-> "S1", address |-> WOf(4096), data |-> <<1, 255>>]).line

EndLine ==
    toString([type |-> "S9", address |-> WOf(4096), data |-> <<>>]).line

\* the lines of the streams: records with and without blanks at the end,
\* an empty line, a line of blanks, a record after a blank, a record
\* with a form feed at the end, and records with a wrong type digit, a
\* wrong hex digit, a wrong checksum and too few characters
ScanLines ==
    {DataLine, DataLine \o <<32, 13>>, EndLine \o <<9>>, <<>>, <<32, 9>>,
     <<32>> \o DataLine, DataLine \o <<12>>,
     Str(<<"S", "4", "0", "3", "0", "0", "0", "0", "F", "C">>),
     [DataLine EXCEPT ![9] = Ord["G"]],
     [DataLine EXCEPT ![Len(DataLine)] = Ord["0"]],
     Str(<<"S", "1">>)}

\* the streams have up to MaxLines lines
MaxLines == 3

Streams == SeqsUpTo(ScanLines, MaxLines)

\* the call at which the callback returns false; 0: it never does
StopAts == {0, 1, 2}

InitStream == SessionIdle /\ fmt = FmtIdle /\ conv = ConvIdle /\ scan = ScanIdle

\* parse_stream is called
ScanOpen ==
    /\ scan.pc = "off"
    /\ \E lines \in Streams, v \in BOOLEAN, k \in StopAts :
          scan' = [ScanIdle EXCEPT !.pc = "scan", !.lines = lines,
                                   !.validate_checksums = v, !.stop_at = k]
    /\ UNCHANGED <<sessionVars, fmt, conv>>

\* one turn of the getline loop: a blank line is passed over; any other
\* is cut after its last character that is no blank and parsed, and the
\* record goes to the callback, which may end the loop; a parse error
\* without a line number is thrown again with the number of the line
ScanLine ==
    /\ scan.pc = "scan"
    /\ scan.line_number < Len(scan.lines)
    /\ LET line_number == scan.line_number + 1
           read == scan.lines[line_number]
       IN  IF read = <<>> \/ find_first_not_of(read) = 0
           THEN scan' = [scan EXCEPT !.line_number = line_number]
           ELSE LET line == SubSeq(read, 1, find_last_not_of(read))
                    out  == parse_line(line, line_number,
                                       scan.validate_checksums)
                IN  IF out.ok
                    THEN scan' =
                           [scan EXCEPT
                              !.line_number = line_number,
                              !.calls = Append(@, [line |-> line,
                                                   record |-> out.record]),
                              !.pc = IF Len(scan.calls) + 1 = scan.stop_at
                                     THEN "done" ELSE "scan"]
                    ELSE scan' =
                           [scan EXCEPT
                              !.line_number = line_number,
                              !.pc = "failed",
                              !.err = rethrow(out.err, line_number)]
    /\ UNCHANGED <<sessionVars, fmt, conv>>

\* getline finds no more line, and the stream is not bad
ScanEnd ==
    /\ scan.pc = "scan"
    /\ scan.line_number >= Len(scan.lines)
    /\ scan' = [scan EXCEPT !.pc = "done"]
    /\ UNCHANGED <<sessionVars, fmt, conv>>

NextStream == ScanOpen \/ ScanLine \/ ScanEnd

SpecStream == InitStream /\ [][NextStream]_vars

-----------------------------------------------------------------------------
(* The encoding alone, run to its end.  With a chunk size of 0 every turn  *)
(* of the loop reads nothing and writes an empty data record, and the      *)
(* stream never fails, so the loop goes on until write_record_payload      *)
(* refuses the record.                                                     *)

\* the turns of such a loop after the first MaxEmptyTurns, taken in one
\* step: each writes an empty data record and is reported to a callback
\* that, having let MaxEmptyTurns turns pass, lets every turn pass, until
\* the turn that finds MAX_RECORD_COUNT records throws; the lines of these
\* turns are counted in prior, not kept in fs
ConvEmptyTurns ==
    /\ conv.pc = "loop"
    /\ conv.chunk_size = 0
    /\ record_count >= MaxEmptyTurns
    /\ conv.cb = "none" \/ progress_callback(conv.cb, conv.cb_calls + 1)
    /\ LET turns == MAX_RECORD_COUNT - record_count
           out   == PayloadOutcome(is_open, filename, record_count + turns,
                                   address, address_size_bits, <<>>)
       IN  /\ ~out.ok
           /\ record_count' = record_count + turns
           /\ prior' = turns
           /\ is_open' = FALSE
           /\ conv' = [Failed(out.err) EXCEPT
                         !.cb_calls = IF conv.cb = "none" THEN @
                                      ELSE @ + turns]
    /\ UNCHANGED <<filename, address, exec_address, address_size_bits, fs,
                   hist, last, fmt, scan>>

\* the conversions that are run to their end: convert_stream into a 16-bit
\* file at address 0, with every buffer size and callback, with and without
\* checksum, and the one whose file cannot be opened
FairConfigs ==
    {cfg \in ConvConfigs : /\ cfg.api = "convert_stream"
                           /\ cfg.bits = "BITS16"
                           /\ cfg.start = WOf(0)}

\* no input, and an input of MaxInput bytes
FairInputs == {<<>>, [i \in 1..MaxInput |-> 171]}

ConvOpenFair == ConvOpenWith(FairConfigs, FairInputs)

NextEncode ==
    \/ ConvOpenFair
    \/ ConvChunk
    \/ ConvEmptyTurns
    \/ ConvCount
    \/ ConvTermination
    \/ ConvClose
    \/ ConvTempCreate
    \/ ConvTempHeader
    \/ ConvTempAppend
    \/ ConvRename

\* convert_stream is one thread of control over a finite stream and
\* blocking I/O, and its callback returns: a step that can be taken is taken
SpecEncodeFair == InitConvert /\ [][NextEncode]_vars /\ WF_vars(NextEncode)

-----------------------------------------------------------------------------
(* The decoder on a file of any lines: convert_srec_to_bin.                *)

\* the lines of the files to decode: data records of the three widths, a
\* header, a termination record, an empty line, a blank, a line that does
\* not start with 'S', an 'S' alone, a data record whose count, address
\* and checksum are no hex digits, data records with the pairs "G1", "1G"
\* and "-1", one with a single character after a pair, and two that end
\* before and in the checksum
DecodeLines ==
    {DataLine,
     toString([type |-> "S2", address |-> WOf(MAX_ADDR16 + 1),
               data |-> <<0>>]).line,
     toString([type |-> "S3", address |-> UINT32_MAX, data |-> <<171>>]).line,
     toString([type |-> "S0", address |-> WOf(0), data |-> <<72>>]).line,
     EndLine, <<>>, <<32>>,
     Str(<<"X", "1", "0", "4", "0", "0", "0", "0", "A", "A", "5", "1">>),
     Str(<<"S">>),
     Str(<<"S", "1", "G", "G", "X", "X", "X", "X", "0", "A", "G", "G">>),
     Str(<<"S", "1", "0", "4", "0", "0", "0", "0", "G", "1", "F", "A">>),
     Str(<<"S", "1", "0", "4", "0", "0", "0", "0", "1", "G", "F", "A">>),
     Str(<<"S", "1", "0", "4", "0", "0", "0", "0", "-", "1", "F", "A">>),
     Str(<<"S", "1", "0", "4", "0", "0", "0", "0", "0", "1", "F", "F", "A">>),
     Str(<<"S", "1", "0", "3", "0", "0">>),
     Str(<<"S", "1", "0", "3", "0", "0", "0", "0", "F">>)}

\* the files to decode have up to MaxLines lines
DecodeFiles == SeqsUpTo(DecodeLines, MaxLines)

\* a file is there to be decoded, or there is none
InitDecode ==
    /\ filename = "out.srec" /\ is_open = FALSE
    /\ address = <<0, 0>> /\ exec_address = <<0, 0>>
    /\ address_size_bits = "BITS16" /\ record_count = 0
    /\ prior = 0 /\ hist = HistIdle /\ last = LastIdle
    /\ fmt = FmtIdle /\ scan = ScanIdle
    /\ conv = [ConvIdle EXCEPT !.pc = "input", !.api = "convert_srec_to_bin"]
    /\ \/ fs = NoFiles
       \/ \E lines \in DecodeFiles :
             fs = [NoFiles EXCEPT !["out.srec"] =
                      [exists |-> TRUE, lines |-> lines]]

NextDecode == DecodeOpen \/ DecodeLine \/ DecodeClose

SpecDecode == InitDecode /\ [][NextDecode]_vars

-----------------------------------------------------------------------------
(* What the claims about the text format expect, stated from the format:   *)
(* the digits of a field are read off the tables of hex digits.            *)

UpperDigits == Str(<<"0", "1", "2", "3", "4", "5", "6", "7",
                     "8", "9", "A", "B", "C", "D", "E", "F">>)

LowerDigits == Str(<<"0", "1", "2", "3", "4", "5", "6", "7",
                     "8", "9", "a", "b", "c", "d", "e", "f">>)

IsUpperHexDigit(c) == \E i \in 1..16 : UpperDigits[i] = c

IsHexDigit(c) == \E i \in 1..16 : UpperDigits[i] = c \/ LowerDigits[i] = c

DigitValue(c) ==
    (CHOOSE i \in 1..16 : UpperDigits[i] = c \/ LowerDigits[i] = c) - 1

\* the value of the two hex digits at positions p and p + 1 of a line
PairValue(line, p) == (16 * DigitValue(line[p])) + DigitValue(line[p + 1])

KindDigit ==
    [S0 |-> Ord["0"], S1 |-> Ord["1"], S2 |-> Ord["2"], S3 |-> Ord["3"],
     S5 |-> Ord["5"], S6 |-> Ord["6"], S7 |-> Ord["7"], S8 |-> Ord["8"],
     S9 |-> Ord["9"]]

\* the width in bytes of the address field of each kind
AddressWidth ==
    [S0 |-> 2, S1 |-> 2, S5 |-> 2, S9 |-> 2, S2 |-> 3, S6 |-> 3, S8 |-> 3,
     S3 |-> 4, S7 |-> 4]

OnesComplement8(x) == 255 - (x % 256)

\* the big-endian value of the address field of a line, as a pair
FieldAddress(line, width) ==
    LET b(k) == PairValue(line, 3 + (2 * k))
    IN  CASE width = 2 -> <<0, (256 * b(1)) + b(2)>>
          [] width = 3 -> <<b(1), (256 * b(2)) + b(3)>>
          [] width = 4 -> <<(256 * b(1)) + b(2), (256 * b(3)) + b(4)>>

\* the line with the hex letters 'a'..'f' after the record type in upper case
UpperHexOf(line) ==
    [i \in 1..Len(line) |->
        IF i > 2 /\ line[i] >= 97 /\ line[i] <= 102 THEN line[i] - 32
        ELSE line[i]]

ExampleRecord == [type |-> "S1", address |-> WOf(4096), data |-> <<1, 2, 3>>]

ExampleLine ==
    Str(<<"S", "1", "0", "6", "1", "0", "0", "0",
          "0", "1", "0", "2", "0", "3", "E", "3">>)

C3_ParseLineFields ==
    (fmt.op \in {"parse_line", "parse_literal"} /\ fmt.res.ok)
    => LET line  == fmt.line
           r     == fmt.res.record
           width == AddressWidth[r.type]
           count == PairValue(line, 3)
       IN  /\ line[2] = KindDigit[r.type]
           /\ r.address = FieldAddress(line, width)
           /\ Len(r.data) = count - width - 1
           /\ \A i \in 1..Len(r.data) :
                 r.data[i] = PairValue(line, 3 + (2 * width) + (2 * i))
           /\ r.checksum = PairValue(line, Len(line) - 1)
           /\ r.line_number = fmt.line_number
           /\ parse_line(LowerHex(line), fmt.line_number, fmt.validate) = fmt.res
           /\ parse_line(UpperHexOf(line), fmt.line_number, fmt.validate) = fmt.res
           /\ (fmt.mut.kind \in {"none", "lower"} /\ fmt.op = "parse_line")
              => /\ r.type = fmt.rec.type
                 /\ r.address = fmt.rec.address
                 /\ r.data = fmt.rec.data

\* a lower-case S3 line at address 0xFFFFFFFF with two data bytes was parsed
C3_Witness ==
    /\ fmt.op = "parse_line"
    /\ fmt.res.ok
    /\ fmt.mut.kind = "lower"
    /\ fmt.line # fmt.base
    /\ fmt.res.record.type = "S3"
    /\ fmt.res.record.address = UINT32_MAX
    /\ fmt.res.record.data = <<1, 255>>
    /\ fmt.res.record.line_number = 7

\* position p of a formatted line of the kind lies in its data field
InDataField(line, type, p) ==
    /\ p > 4 + (2 * AddressWidth[type])
    /\ p <= Len(line) - 2

-----------------------------------------------------------------------------
(* What the claims about the writer session expect.                        *)

\* the lines the last call appended to the output file
Appended ==
    SubSeq(fs[filename].lines, Len(last.before.file.lines) + 1,
           Len(fs[filename].lines))

\* the last call appended to the output file and changed nothing else of it
KeepsPrefix ==
    /\ fs[filename].exists = last.before.file.exists
    /\ Len(fs[filename].lines) >= Len(last.before.file.lines)
    /\ SubSeq(fs[filename].lines, 1, Len(last.before.file.lines))
         = last.before.file.lines

\* the last call left the output file as it was
Untouched == fs[filename] = last.before.file

\* the last call appended exactly one line
AppendedOne == KeepsPrefix /\ Len(Appended) = 1

WidthBytes == [BITS16 |-> 2, BITS24 |-> 3, BITS32 |-> 4]

WidthMax == [BITS16 |-> <<0, 65535>>, BITS24 |-> <<255, 65535>>,
             BITS32 |-> <<65535, 65535>>]

DataDigit == [BITS16 |-> Ord["1"], BITS24 |-> Ord["2"], BITS32 |-> Ord["3"]]

TerminationDigit ==
    [BITS16 |-> Ord["9"], BITS24 |-> Ord["8"], BITS32 |-> Ord["7"]]

MaxPayload == [BITS16 |-> 249, BITS24 |-> 247, BITS32 |-> 245]

\* a <= b for two numbers held as pairs
PairLe(a, b) == a[1] < b[1] \/ (a[1] = b[1] /\ a[2] <= b[2])

\* a + n as a pair, not reduced to 32 bits
PairPlus(a, n) ==
    <<a[1] + ((a[2] + n) \div 65536), (a[2] + n) % 65536>>

\* the last write_record_payload call got as far as a record: the session
\* was open and below the record limit, and the address of the record fits
\* the address size and 32 bits
RecordBuilt ==
    /\ last.before.is_open
    /\ last.before.record_count < 1000000
    /\ PairLe(PairPlus(last.before.address, Len(last.buffer)),
              <<65535, 65535>>)
    /\ PairLe(last.before.address, WidthMax[address_size_bits])

(* C5: max_data_bytes_per_record() returns 249, 247 and 245 for the 16, 24 *)
(* and 32 bit address sizes; no write_record_payload call, whatever the    *)
(* buffer length, appends a line whose declared byte_count exceeds 255; a  *)
(* record whose address and payload bytes exceed 254 is refused with a     *)
(* data-too-large validation error and nothing is written.                 *)
C5_CapacityInvariant ==
    /\ last.op = "max_data_bytes_per_record"
          => last.result = MaxPayload[address_size_bits]
    /\ last.op = "write_record_payload"
          => /\ KeepsPrefix
             /\ \A i \in 1..Len(Appended) :
                   LET line == Appended[i]
                   IN  /\ Len(line) >= 6 /\ Len(line) <= 4 + (2 * 255)
                       /\ IsUpperHexDigit(line[3]) /\ IsUpperHexDigit(line[4])
                       /\ Len(line) = 4 + (2 * PairValue(line, 3))
             /\ (WidthBytes[address_size_bits] + Len(last.buffer) > 254)
                   => /\ Untouched
                      /\ RecordBuilt => /\ last.err.kind = "validation"
                                        /\ last.err.sub = "DATA_TOO_LARGE"

\* a 16 bit session wrote a record of 252 bytes, the longest line there is,
\* and then refused a buffer of 253 bytes as too large
C5_Witness ==
    /\ address_size_bits = "BITS16"
    /\ last.op = "write_record_payload"
    /\ Len(last.buffer) = 253
    /\ RecordBuilt
    /\ last.err.sub = "DATA_TOO_LARGE"
    /\ Untouched
    /\ \E i \in 1..Len(fs[filename].lines) :
          Len(fs[filename].lines[i]) = 4 + (2 * 255)

(* C6: in every reachable state of a writer session the current address is *)
(* the start address plus the total length of the buffers of the           *)
(* successful write_record_payload calls, record_count is the number of    *)
(* these calls, each data record is written at the address the call found, *)
(* as S1/S2/S3 for the 16/24/32 bit address size, and the current address  *)
(* never decreases or wraps.                                               *)
C6_WriterAccounting ==
    /\ address = PairPlus(hist.start, hist.total_len)
    /\ PairLe(address, <<65535, 65535>>)
    /\ record_count = hist.n_ok
    /\ last.op # "none" => PairLe(last.before.address, address)
    /\ (last.op = "write_record_payload" /\ last.err.kind = "none")
          => /\ AppendedOne
             /\ record_count = last.before.record_count + 1
             /\ address = PairPlus(last.before.address, Len(last.buffer))
             /\ LET line  == Appended[1]
                    width == WidthBytes[address_size_bits]
                IN  /\ line[1] = Ord["S"]
                    /\ line[2] = DataDigit[address_size_bits]
                    /\ FieldAddress(line, width) = last.before.address
                    /\ PairValue(line, 3) = width + Len(last.buffer) + 1
                    /\ \A i \in 1..Len(last.buffer) :
                          PairValue(line, 3 + (2 * width) + (2 * i))
                            = last.buffer[i]
    /\ (last.op = "write_record_payload" /\ last.err.kind # "none")
          => /\ address = last.before.address
             /\ record_count = last.before.record_count

\* two buffers were written from a start address that is not 0, the second
\* at the address the first one left
C6_Witness ==
    /\ last.op = "write_record_payload"
    /\ last.err.kind = "none"
    /\ hist.start = <<0, 65535>>
    /\ hist.n_ok = 2
    /\ hist.total_len = 252
    /\ last.before.address = <<1, 1>>
    /\ address = <<1, 251>>

(* C7: write_record_payload fails, without writing a line: on a closed     *)
(* session with a file error; at a record_count of 1,000,000 or more with  *)
(* a data-too-large validation error; when the current address plus the    *)
(* buffer length exceeds 0xFFFFFFFF with an address-range error that       *)
(* carries the offending address, current address + length, and the        *)
(* maximum 0xFFFFFFFF.                                                     *)
C7_PayloadFailures ==
    last.op = "write_record_payload"
    => /\ ~last.before.is_open
             => /\ last.err.kind = "file"
                /\ Untouched
       /\ (last.before.is_open /\ last.before.record_count >= 1000000)
             => /\ last.err.kind = "validation"
                /\ last.err.sub = "DATA_TOO_LARGE"
                /\ Untouched
       /\ (/\ last.before.is_open
           /\ last.before.record_count < 1000000
           /\ ~PairLe(PairPlus(last.before.address, Len(last.buffer)),
                      <<65535, 65535>>))
             => /\ last.err.kind = "address"
                /\ Untouched
                /\ last.err.max_address = <<65535, 65535>>
                /\ last.err.address
                     = PairPlus(last.before.address, Len(last.buffer))

(* C8: write_record_count writes an S5 record carrying record_count when   *)
(* record_count <= 0xFFFF (S5 after exactly 0xFFFF data records), an S6    *)
(* record when it is 0x10000 or more, and fails, with a data-too-large     *)
(* validation error, exactly when more than 0xFFFFFF data records have     *)
(* been written.                                                           *)
C8_CountSelection ==
    (last.op = "write_record_count" /\ last.before.is_open)
    => LET n == last.before.record_count
       IN  /\ n = hist.n_ok
           /\ n <= 65535
                 => /\ last.err.kind = "none"
                    /\ AppendedOne
                    /\ Appended[1][2] = Ord["5"]
                    /\ Len(Appended[1]) = 10
                    /\ FieldAddress(Appended[1], 2) = <<0, n>>
           /\ (n >= 65536 /\ n <= 16777215)
                 => /\ last.err.kind = "none"
                    /\ AppendedOne
                    /\ Appended[1][2] = Ord["6"]
                    /\ Len(Appended[1]) = 12
                    /\ FieldAddress(Appended[1], 3)
                         = <<n \div 65536, n % 65536>>
           /\ n > 16777215
                 <=> (last.err.kind = "validation"
                      /\ last.err.sub = "DATA_TOO_LARGE")
           /\ last.err.kind # "none" => Untouched

\* the count was written after exactly 0xFFFF data records, as S5, and
\* again after one more, as S6
C8_Witness ==
    /\ last.op = "write_record_count"
    /\ last.before.record_count = 65536
    /\ Len(fs[filename].lines) = 3
    /\ fs[filename].lines[1] = Str(<<"S", "5", "0", "3", "F", "F", "F", "F", "F", "E">>)
    /\ fs[filename].lines[3]
         = Str(<<"S", "6", "0", "4", "0", "1", "0", "0", "0", "0", "F", "A">>)

\* the start address of the session fits its address size
StartFits == PairLe(hist.start, WidthMax[address_size_bits])

\* the last call wrote one termination record of the address size carrying
\* the start address
TerminationWritten ==
    /\ last.err.kind = "none"
    /\ AppendedOne
    /\ Appended[1][1] = Ord["S"]
    /\ Appended[1][2] = TerminationDigit[address_size_bits]
    /\ Len(Appended[1]) = 6 + (2 * WidthBytes[address_size_bits])
    /\ FieldAddress(Appended[1], WidthBytes[address_size_bits]) = hist.start

(* C9 as stated: write_record_termination on an open session appends       *)
(* exactly one line, an S9/S8/S7 record for the 16/24/32 bit address size, *)
(* whose address field is the start address of the session, whatever was   *)
(* written before; exec_address is never changed.                          *)
C9_Original ==
    /\ exec_address = hist.start
    /\ (last.op = "write_record_termination" /\ last.before.is_open)
          => TerminationWritten

(* C9: exec_address is never changed; write_record_termination on an open  *)
(* session whose start address fits the address size (<= 0xFFFF for 16     *)
(* bit, <= 0xFFFFFF for 24 bit) appends exactly one line, an S9/S8/S7      *)
(* record carrying the start address, whatever was written before; with a  *)
(* start address above that maximum it fails with an address-range error   *)
(* carrying the start address and the maximum, and appends nothing.        *)
C9_Termination ==
    /\ exec_address = hist.start
    /\ (last.op = "write_record_termination" /\ last.before.is_open)
          => IF StartFits THEN TerminationWritten
             ELSE /\ last.err.kind = "address"
                  /\ last.err.address = hist.start
                  /\ last.err.max_address = WidthMax[address_size_bits]
                  /\ Untouched

\* a termination record was written after a data record and a count record
\* had moved the current address away from the start address
C9_Witness ==
    /\ last.op = "write_record_termination"
    /\ TerminationWritten
    /\ hist.start = <<0, 65535>>
    /\ address # exec_address
    /\ Len(fs[filename].lines) = 3

\* a 16 bit session that starts at 0x10000 refused its termination record
C9_WitnessRefused ==
    /\ last.op = "write_record_termination"
    /\ last.before.is_open
    /\ ~StartFits
    /\ last.err.kind = "address"

WriteCalls ==
    {"write_header", "write_header_text", "write_record_payload",
     "write_record_count", "write_record_termination"}

\* a step of a closed session changes neither the file nor the counters,
\* and a write call of that step throws a file error with the filename
ClosedStep ==
    ~is_open
    => /\ ~is_open'
       /\ fs' = fs
       /\ address' = address
       /\ record_count' = record_count
       /\ last'.op \in WriteCalls
             => /\ last'.err.kind = "file"
                /\ last'.err.filename = filename

(* C10: once a writer session is closed, every later write_header,         *)
(* write_record_payload, write_record_count and write_record_termination   *)
(* call fails with a file error carrying the filename, and the output file *)
(* content, the current address and record_count never change again.       *)
C10_ClosedSession == [][ClosedStep]_vars

\* a session that wrote a data record was closed and then refused another
C10_Witness ==
    /\ last.op = "write_record_payload"
    /\ ~last.before.is_open
    /\ last.err.kind = "file"
    /\ last.err.filename = "out.srec"
    /\ hist.n_ok = 1
    /\ Len(fs[filename].lines) = 1
    /\ hist.calls = 3

-----------------------------------------------------------------------------
(* C11: calling close() on a writer session that is closed already raises  *)
(* no error, leaves the session closed, and leaves the output file as it   *)
(* was (which, no step of a closed session changing the file, is what it   *)
(* was after the first close).                                             *)
C11_IdempotentClose ==
    (last.op = "close" /\ ~last.before.is_open)
    => /\ last.err.kind = "none"
       /\ ~is_open
       /\ Untouched
       /\ address = last.before.address
       /\ record_count = last.before.record_count

\* a session wrote a data record and was closed twice
C11_Witness ==
    /\ last.op = "close"
    /\ ~last.before.is_open
    /\ last.before.file.exists
    /\ hist.n_ok = 1
    /\ Len(fs[filename].lines) = 1
    /\ hist.calls = 3
    /\ ~is_open

(* What the claim about the round trip expects.                            *)

\* s is the beginning of t
IsPrefix(s, t) == Len(s) <= Len(t) /\ s = SubSeq(t, 1, Len(s))

\* the decoding of the file of a conversion has ended
DecodeEnded == conv.pc \in {"decoded", "decode_failed"}

\* a conversion whose output file was opened, whose start address fits
\* the address size, and whose progress callback, if it has one, never
\* asked to stop
Uninterrupted ==
    /\ conv.opened
    /\ conv.cb # "cancel"
    /\ PairLe(conv.start, WidthMax[address_size_bits])

C1_WitnessFailed ==
    /\ conv.pc = "decoded"
    /\ conv.err.kind = "address"
    /\ conv.input = <<171, 0>>
    /\ conv.output = <<171>>

-----------------------------------------------------------------------------
(* What the claims about an encoding expect, read off the output file.     *)

\* the encoding has ended without an error
EncodeSucceeded == conv.pc = "encoded" /\ conv.err.kind = "none"

OutputLines == fs[filename].lines

\* the number of payload bytes of a data line, by its byte count
PayloadLength(line, width) == PairValue(line, 3) - width - 1

\* the payload bytes of a data line
PayloadBytes(line, width) ==
    [i \in 1..PayloadLength(line, width) |->
        PairValue(line, 3 + (2 * width) + (2 * i))]

\* the most bytes a chunk of the conversion may have
ChunkLimit ==
    IF conv.api = "convert_stream"
       /\ conv.buffer_size < MaxPayload[address_size_bits]
    THEN conv.buffer_size
    ELSE MaxPayload[address_size_bits]

\* the chunks of the input, each of ChunkLimit bytes but the last
NumChunks == (Len(conv.input) + ChunkLimit - 1) \div ChunkLimit

ChunkOf(k) ==
    LET to == k * ChunkLimit
    IN  SubSeq(conv.input, ((k - 1) * ChunkLimit) + 1,
               IF to < Len(conv.input) THEN to ELSE Len(conv.input))

(* C12: after every encoding that ends without an error the output file    *)
(* is, in this order: the S0 checksum header if and only if want_checksum  *)
(* was set; one data record per chunk in input order, the first at         *)
(* start_address and each next one at the address of the one before plus   *)
(* its payload length; one count record whose value is the number of data  *)
(* records; one termination record as the last line; and the session is    *)
(* closed.                                                                 *)
C12_EncodeOrder ==
    EncodeSucceeded
    => LET lines   == OutputLines
           h       == IF conv.want_checksum THEN 1 ELSE 0
           n       == NumChunks
           width   == WidthBytes[address_size_bits]
           data(k) == lines[h + k]
       IN  /\ ~is_open
           /\ Len(lines) = h + n + 2
           /\ \A i \in 1..Len(lines) :
                 lines[i][2] = Ord["0"] <=> (i = 1 /\ conv.want_checksum)
           /\ \A k \in 1..n :
                 /\ data(k)[2] = DataDigit[address_size_bits]
                 /\ PayloadBytes(data(k), width) = ChunkOf(k)
                 /\ FieldAddress(data(k), width)
                      = IF k = 1 THEN conv.start
                        ELSE PairPlus(FieldAddress(data(k - 1), width),
                                      PayloadLength(data(k - 1), width))
           /\ lines[h + n + 1][2] = Ord["5"]
           /\ FieldAddress(lines[h + n + 1], 2) = <<0, n>>
           /\ lines[h + n + 2][2] = TerminationDigit[address_size_bits]

\* three bytes were encoded from 0xFFFF in chunks of two, with the header:
\* five lines, the second data record at 0x10001
C12_Witness ==
    /\ conv.pc = "encoded"
    /\ conv.err.kind = "none"
    /\ conv.want_checksum
    /\ address_size_bits = "BITS24"
    /\ conv.start = <<0, 65535>>
    /\ Len(conv.input) = 3
    /\ conv.buffer_size = 2
    /\ Len(OutputLines) = 5
    /\ FieldAddress(OutputLines[3], 3) = <<1, 1>>
    /\ ~is_open

\* the data lines of the output file of the address width
DataLines ==
    {i \in 1..Len(OutputLines) :
        OutputLines[i][2] = DataDigit[address_size_bits]}

\* every data record has a payload of at least one byte and of at most
\* min(buffer_size, max_data_bytes_per_record()) bytes, and there is one
\* data record for each chunk read so far
Chunked ==
    LET width == WidthBytes[address_size_bits]
    IN  /\ \A i \in DataLines :
              /\ PayloadLength(OutputLines[i], width) <= ChunkLimit
              /\ PayloadLength(OutputLines[i], width) >= 1
        /\ LET n == Cardinality(DataLines)
           IN  /\ n * ChunkLimit >= conv.pos
               /\ n > 0 => (n - 1) * ChunkLimit < conv.pos

(* C13: at every point of a convert_stream conversion, for every input and *)
(* every requested buffer_size, each write_record_payload call got at most *)
(* min(buffer_size, max_data_bytes_per_record()) bytes, one data record    *)
(* was written per non-empty chunk read, the last possibly shorter, and no *)
(* data record has an empty payload.                                       *)
C13_Chunking ==
    (conv.api = "convert_stream" /\ conv.opened) => Chunked

\* the same for the requested buffer sizes of one byte and more
C13_PositiveSizes ==
    (conv.api = "convert_stream" /\ conv.opened /\ conv.buffer_size > 0)
    => Chunked

\* a conversion with buffer_size 0 has written a data record of no bytes
C13_EmptyRecord ==
    /\ conv.api = "convert_stream"
    /\ conv.buffer_size = 0
    /\ Len(conv.input) = 3
    /\ conv.pos = 0
    /\ Len(OutputLines) = 2
    /\ PayloadLength(OutputLines[2], WidthBytes[address_size_bits]) = 0

\* the invocation at which the progress callback of the conversion returns
\* false: the k of the claim, 0 for a callback that never does
CancelAt ==
    CASE conv.cb = "cancel" -> 1
      [] conv.cb = "cancel_second" -> 2
      [] OTHER -> 0

(* C14: once the progress callback has returned false on its k-th          *)
(* invocation, convert_stream has thrown a validation error of sub-kind    *)
(* USER_CANCELLED, the callback is not invoked again, exactly k data       *)
(* records are in the output file, and no count record, termination record *)
(* or checksum header is written.                                          *)
C14_Cancellation ==
    (CancelAt > 0 /\ conv.cb_calls >= CancelAt)
    => /\ conv.err.kind = "validation"
       /\ conv.err.sub = "USER_CANCELLED"
       /\ conv.pc \notin {"loop", "termination", "close", "checksum",
                          "header", "append", "rename", "encoded"}
       /\ conv.cb_calls = CancelAt
       /\ Len(OutputLines) = CancelAt
       /\ \A i \in 1..Len(OutputLines) :
             OutputLines[i][2] = DataDigit[address_size_bits]
       /\ ~fs[TmpName(filename)].exists
       /\ ~is_open

\* the callback returned true after the first of three chunks and false
\* after the second, with the checksum asked for: two data records
C14_Witness ==
    /\ conv.cb = "cancel_second"
    /\ conv.cb_calls = 2
    /\ conv.want_checksum
    /\ Len(conv.input) = 3
    /\ conv.buffer_size = 1
    /\ conv.pc = "failed"
    /\ conv.err.sub = "USER_CANCELLED"
    /\ Len(OutputLines) = 2

\* the CRC-32 of the payloads of the data lines among the lines lo..hi of
\* the output file, taken chunk by chunk in order from the running value c
\* (the lines are split in halves to keep the evaluation shallow)
RECURSIVE RunningCrc(_, _, _)
RunningCrc(lo, hi, c) ==
    IF lo > hi THEN c
    ELSE IF lo = hi
    THEN IF OutputLines[lo][2] = DataDigit[address_size_bits]
         THEN xcrc32(PayloadBytes(OutputLines[lo],
                                  WidthBytes[address_size_bits]), c)
         ELSE c
    ELSE LET m    == (lo + hi) \div 2
             left == RunningCrc(lo, m, c)
         IN  IF left[1] >= 0 THEN RunningCrc(m + 1, hi, left) ELSE left

\* the four bytes of a 32 bit number, the most significant first
BigEndian4(w) == <<w[1] \div 256, w[1] % 256, w[2] \div 256, w[2] % 256>>

(* C15: when an encoding with want_checksum has ended without an error     *)
(* the first line of the file is an S0 record with a payload of 5 bytes:   *)
(* the big-endian CRC-32, accumulated from 0 chunk by chunk in order over  *)
(* the payload bytes of all the S1/S2/S3 records that follow, and a zero   *)
(* byte; the lines after the first are the file as it was written before   *)
(* the header was added.                                                   *)
C15_ChecksumHeader ==
    (conv.pc = "encoded" /\ conv.err.kind = "none" /\ conv.want_checksum)
    => LET first == OutputLines[1]
       IN  /\ Len(OutputLines) >= 1
           /\ first[1] = Ord["S"]
           /\ first[2] = Ord["0"]
           /\ PayloadLength(first, 2) = 5
           /\ Len(first) = 4 + (2 * 8)
           /\ PayloadBytes(first, 2)
                = BigEndian4(RunningCrc(2, Len(OutputLines), <<0, 0>>)) \o <<0>>
           /\ Tail(OutputLines) = conv.plain
           /\ Len(conv.plain) >= 2

\* 250 bytes were encoded as two S1 records under a header whose CRC bytes
\* are not all the same
C15_Witness ==
    /\ conv.pc = "encoded"
    /\ conv.err.kind = "none"
    /\ conv.want_checksum
    /\ address_size_bits = "BITS16"
    /\ Len(conv.input) = 250
    /\ Len(OutputLines) = 5
    /\ OutputLines[1][2] = Ord["0"]
    /\ PairValue(OutputLines[1], 9) # PairValue(OutputLines[1], 15)
    /\ Tail(OutputLines) = conv.plain

\* write_checksum has begun: the temporary file is made, holds the header,
\* holds the header and the copy, or has been renamed
InChecksum ==
    /\ conv.want_checksum
    /\ conv.err.kind = "none"
    /\ conv.pc \in {"header", "append", "rename", "encoded"}

(* C16: at every step of write_checksum (temporary file created, header    *)
(* written, original content appended, renamed), so wherever it may be     *)
(* interrupted, the output path holds either the complete content from     *)
(* before the checksum or the complete final content, the header followed  *)
(* by that content; it never holds a part of either.                       *)
C16_AtomicPrepend ==
    InChecksum
    => /\ fs[filename].exists
       /\ Len(conv.plain) >= 2
       /\ conv.plain[Len(conv.plain)][2] = TerminationDigit[address_size_bits]
       /\ IF conv.pc = "encoded"
          THEN /\ Len(OutputLines) = Len(conv.plain) + 1
               /\ OutputLines[1][2] = Ord["0"]
               /\ Tail(OutputLines) = conv.plain
          ELSE OutputLines = conv.plain

\* the temporary file holds the header alone while the output file still
\* is the four lines written before
C16_Witness ==
    /\ conv.pc = "append"
    /\ InChecksum
    /\ Len(fs[TmpName(filename)].lines) = 1
    /\ Len(conv.plain) = 4
    /\ OutputLines = conv.plain

-----------------------------------------------------------------------------
(* What the claims about rejected lines expect.                            *)

\* the digits that name a record type
TypeDigits ==
    {Ord["0"], Ord["1"], Ord["2"], Ord["3"], Ord["5"], Ord["6"], Ord["7"],
     Ord["8"], Ord["9"]}

\* the line has one of the defects of structure
BadStructure(line) ==
    \/ line = <<>>
    \/ line[1] # Ord["S"]
    \/ Len(line) < 6

\* the line has one of the defects the parser is to reject: of structure,
\* of type digit, of a character that is no hex digit after the type, or
\* of a length that is not what its byte count says
Malformed(line) ==
    \/ BadStructure(line)
    \/ line[2] \notin TypeDigits
    \/ \E i \in 3..Len(line) : ~IsHexDigit(line[i])
    \/ Len(line) # 4 + (2 * PairValue(line, 3))

\* a call of parse_line was made
Parsed == fmt.op \in {"parse_line", "parse_literal"}

(* C17: parse_line returns no record and fails with a parse error for      *)
(* every line that is empty, does not start with 'S', is shorter than 6    *)
(* characters, has a type digit outside {0,1,2,3,5,6,7,8,9}, has a         *)
(* character that is no hex digit in its count, address, data or checksum  *)
(* field, or has a length other than 4 + 2 * byte_count.                   *)
C17_ParseLineRejects ==
    (Parsed /\ Malformed(fmt.line))
    => /\ ~fmt.res.ok
       /\ fmt.res.err.kind = "parse"
       /\ fmt.res.record = NoRecord

\* a line whose only defect is a 'G' in its data field was refused, the
\* checksum not being validated
C17_Witness ==
    /\ fmt.op = "parse_line"
    /\ ~fmt.validate
    /\ fmt.mut.kind = "set"
    /\ fmt.mut.ch = Ord["G"]
    /\ InDataField(fmt.base, fmt.rec.type, fmt.mut.pos)
    /\ Malformed(fmt.line)
    /\ ~fmt.res.ok
    /\ fmt.res.err.kind = "parse"

(* C18: every parse error parse_line(line, line_number, ...) raises for a  *)
(* malformed line (bad structure, invalid type digit, invalid hex          *)
(* character, length mismatch) carries the line_number it was passed as    *)
(* its line number.                                                        *)
C18_ErrorLineNumber ==
    (Parsed /\ fmt.res.err.kind = "parse")
    => fmt.res.err.line_number = fmt.line_number

\* the parse errors for a bad structure and for a length mismatch carry
\* the line number passed, the others carry it or 0
C18_StructureAndLength ==
    (Parsed /\ fmt.res.err.kind = "parse")
    => /\ fmt.res.err.line_number \in {fmt.line_number, 0}
       /\ (\/ BadStructure(fmt.line)
           \/ /\ fmt.line[2] \in TypeDigits
              /\ IsHexDigit(fmt.line[3]) /\ IsHexDigit(fmt.line[4])
              /\ Len(fmt.line) # 4 + (2 * PairValue(fmt.line, 3)))
          => fmt.res.err.line_number = fmt.line_number

\* parse_line was passed line number 7 and refused a line for its type
\* digit with a parse error of line number 0
C18_LineNumberLost ==
    /\ Parsed
    /\ fmt.line_number = 7
    /\ ~BadStructure(fmt.line)
    /\ fmt.line[2] \notin TypeDigits
    /\ fmt.res.err.kind = "parse"
    /\ fmt.res.err.line_number = 0

-----------------------------------------------------------------------------
(* What the claims about a scan expect.                                    *)

\* a space, a tab, a carriage return or a line feed
IsBlankChar(c) == c = 32 \/ c = 9 \/ c = 13 \/ c = 10

\* the line is empty or has blank characters only
BlankLine(line) == \A i \in 1..Len(line) : IsBlankChar(line[i])

\* the line without the blank characters at its end
RECURSIVE TrimRight(_)
TrimRight(line) ==
    IF line # <<>> /\ IsBlankChar(line[Len(line)])
    THEN TrimRight(SubSeq(line, 1, Len(line) - 1))
    ELSE line

\* the numbers of a set in increasing order
RECURSIVE Ordered(_)
Ordered(S) ==
    IF S = {} THEN <<>>
    ELSE LET m == CHOOSE i \in S : \A j \in S : i <= j
         IN  <<m>> \o Ordered(S \ {m})

\* the physical numbers of the lines among the first n of the stream that
\* are not blank, in stream order
NonBlank(n) == Ordered({i \in 1..n : ~BlankLine(scan.lines[i])})

\* what parse_line makes of physical line i once its end is trimmed
ParseOf(i) ==
    parse_line(TrimRight(scan.lines[i]), i, scan.validate_checksums)

\* the lines the callback is due for: the non-blank ones read so far, but
\* for the line that made the scan fail
Due ==
    NonBlank(IF scan.pc = "failed" THEN scan.line_number - 1
             ELSE scan.line_number)

(* C19: parse_stream invokes the callback exactly once for each non-blank  *)
(* line, in stream order, with the record of the line without the blanks   *)
(* at its end, and passes over empty lines and lines of blanks; once the   *)
(* callback has returned false the scan has stopped without an error and   *)
(* the callback is not invoked for a later line; a scan stops before the   *)
(* end of the stream only for that or for a line that does not parse.      *)
C19_StreamCallbacks ==
    scan.pc # "off"
    => /\ Len(scan.calls) = Len(Due)
       /\ \A j \in 1..Len(Due) :
             /\ scan.calls[j].line = TrimRight(scan.lines[Due[j]])
             /\ ParseOf(Due[j]).ok
             /\ scan.calls[j].record = ParseOf(Due[j]).record
             /\ scan.calls[j].record.line_number = Due[j]
       /\ (scan.stop_at > 0 /\ Len(scan.calls) >= scan.stop_at)
             => /\ scan.pc = "done"
                /\ scan.err.kind = "none"
                /\ Len(scan.calls) = scan.stop_at
       /\ scan.pc = "done"
             => /\ scan.err.kind = "none"
                /\ \/ Len(scan.calls) = scan.stop_at
                   \/ scan.line_number = Len(scan.lines)
       /\ scan.pc = "failed" => ~ParseOf(scan.line_number).ok

\* of an empty line, a record with blanks at its end and two more records,
\* the second and the third went to the callback, which then returned
\* false
C19_Witness ==
    /\ scan.pc = "done"
    /\ scan.stop_at = 2
    /\ Len(scan.lines) = 3
    /\ scan.lines[1] = <<>>
    /\ scan.lines[2] = DataLine \o <<32, 13>>
    /\ scan.line_number = 3
    /\ Len(scan.calls) = 2
    /\ scan.calls[1].line = DataLine
    /\ scan.calls[1].record.line_number = 2
    /\ scan.calls[2].record.type = "S9"

(* C20: in parse_stream a parse error on a line aborts the scan: the       *)
(* callback has been invoked for exactly the non-blank lines before that   *)
(* line and not for it or a later one, and the parse error that leaves     *)
(* parse_stream carries the physical number of the line, counted from 1    *)
(* with the blank lines.                                                   *)
C20_StreamParseError ==
    /\ \A i \in 1..scan.line_number :
          (~BlankLine(scan.lines[i]) /\ ParseOf(i).err.kind = "parse")
          => /\ scan.pc = "failed"
             /\ i = scan.line_number
             /\ scan.err.kind = "parse"
    /\ (scan.pc = "failed" /\ scan.err.kind = "parse")
          => /\ scan.err.line_number = scan.line_number
             /\ scan.line_number >= 1
             /\ ~BlankLine(scan.lines[scan.line_number])
             /\ Len(scan.calls) = Len(NonBlank(scan.line_number - 1))
             /\ \A j \in 1..Len(scan.calls) :
                   scan.calls[j].record.line_number < scan.line_number

\* a record, a line of blanks and a record of type S4: the scan failed
\* with a parse error of line 3 after one call of the callback
C20_Witness ==
    /\ scan.pc = "failed"
    /\ Len(scan.lines) = 3
    /\ scan.lines[2] = <<32, 9>>
    /\ Len(scan.lines[3]) = 10
    /\ scan.lines[3][2] = Ord["4"]
    /\ scan.err.kind = "parse"
    /\ scan.err.line_number = 3
    /\ Len(scan.calls) = 1
    /\ scan.calls[1].record.line_number = 1

-----------------------------------------------------------------------------
(* What the claims about the decoder expect.                               *)

\* the lines of the file that is decoded
InputLines == fs[filename].lines

\* the decoder has read lines: so many of them
Decoding ==
    /\ conv.api = "convert_srec_to_bin"
    /\ conv.pc \in {"decode", "decoded", "decode_failed"}
    /\ fs[filename].exists

LinesDecoded == conv.dline - 1

\* the line starts with 'S' and '1', '2' or '3'
IsDataLine(line) ==
    /\ Len(line) >= 2
    /\ line[1] = Ord["S"]
    /\ line[2] \in {Ord["1"], Ord["2"], Ord["3"]}

\* the 4 header characters and the 4, 6 or 8 address characters
DataOffset(line) ==
    CASE line[2] = Ord["1"] -> 4 + 4
      [] line[2] = Ord["2"] -> 4 + 6
      [] line[2] = Ord["3"] -> 4 + 8

\* the line is long enough to have a data field and a checksum
HasDataField(line) == Len(line) >= DataOffset(line) + 2

\* the data field: the text after the header and the address and before
\* the last 2 characters
DataField(line) == SubSeq(line, DataOffset(line) + 1, Len(line) - 2)

\* the data field is made of pairs of hex digits
HexPairs(field) ==
    /\ Len(field) % 2 = 0
    /\ \A i \in 1..Len(field) : IsHexDigit(field[i])

\* the bytes of a data field of pairs of hex digits
DecodedField(field) ==
    [i \in 1..(Len(field) \div 2) |-> PairValue(field, (2 * i) - 1)]

\* what a line is to give to the output
Contribution(line) ==
    IF IsDataLine(line) THEN DecodedField(DataField(line)) ELSE <<>>

\* what the first n lines of the file are to give to the output
RECURSIVE Concatenated(_)
Concatenated(n) ==
    IF n = 0 THEN <<>>
    ELSE Concatenated(n - 1) \o Contribution(InputLines[n])

(* C21: convert_srec_to_bin writes exactly the concatenation, in file      *)
(* order, of the bytes decoded from the data field of each line that       *)
(* starts with 'S' and '1', '2' or '3' (the text after the 4 header and    *)
(* the 4/6/8 address characters and before the last 2 characters); blank   *)
(* lines, lines that do not start with 'S' and lines of another record     *)
(* type give nothing and cause no error; what stands in the count, the     *)
(* address and the checksum does not matter.  (Data fields that are no     *)
(* pairs of hex digits are the matter of C22.)                             *)
C21_DecodeOutput ==
    (/\ Decoding
     /\ \A i \in 1..LinesDecoded :
           IsDataLine(InputLines[i])
           => /\ HasDataField(InputLines[i])
              /\ HexPairs(DataField(InputLines[i])))
    => /\ conv.derr.kind = "none"
       /\ conv.pc # "decode_failed"
       /\ conv.output = Concatenated(LinesDecoded)
       /\ conv.pc = "decoded" => LinesDecoded = Len(InputLines)

\* a header, a data record whose count, address and checksum are no hex
\* digits and an S3 record were decoded to the two data bytes
C21_Witness ==
    /\ Decoding
    /\ conv.pc = "decoded"
    /\ Len(InputLines) = 3
    /\ Len(InputLines[1]) > 2 /\ InputLines[1][2] = Ord["0"]
    /\ Len(InputLines[2]) > 4 /\ InputLines[2][3] = Ord["G"]
    /\ Len(InputLines[3]) > 2 /\ InputLines[3][2] = Ord["3"]
    /\ conv.output = <<10, 171>>
    /\ conv.derr.kind = "none"

(* C22: in convert_srec_to_bin a malformed hex pair anywhere in the data   *)
(* field of an S1/S2/S3 line (a pair in which either character is no hex   *)
(* digit, or a single character at the end) aborts the decode with an      *)
(* error, and no later line is processed.                                  *)
C22_MalformedPair ==
    Decoding
    => \A i \in 1..LinesDecoded :
          (/\ IsDataLine(InputLines[i])
           /\ HasDataField(InputLines[i])
           /\ ~HexPairs(DataField(InputLines[i])))
          => /\ conv.pc = "decode_failed"
             /\ conv.derr.kind # "none"
             /\ i = LinesDecoded

\* a data field whose first pair begins with a character that is neither
\* a hex digit nor a blank nor a sign does abort the decode, with nothing
\* written for the line
C22_FirstCharacter ==
    Decoding
    => \A i \in 1..LinesDecoded :
          (/\ IsDataLine(InputLines[i])
           /\ HasDataField(InputLines[i])
           /\ DataField(InputLines[i]) # <<>>
           /\ DataField(InputLines[i])[1] = Ord["G"])
          => /\ conv.pc = "decode_failed"
             /\ conv.derr.sub = "ios_base::failure"
             /\ i = LinesDecoded
             /\ (\A j \in 1..(i - 1) :
                    IsDataLine(InputLines[j])
                    => /\ HasDataField(InputLines[j])
                       /\ HexPairs(DataField(InputLines[j])))
                => conv.output = Concatenated(i - 1)

\* the decode of a file whose data field is the pair "1G" ended without
\* an error and wrote the byte 0x01
C22_PairAccepted ==
    /\ Decoding
    /\ conv.pc = "decoded"
    /\ Len(InputLines) = 1
    /\ IsDataLine(InputLines[1])
    /\ HasDataField(InputLines[1])
    /\ DataField(InputLines[1]) = Str(<<"1", "G">>)
    /\ conv.derr.kind = "none"
    /\ conv.output = <<1>>

-----------------------------------------------------------------------------
(* What the claims about the counters of the writer session expect.        *)

\* the last call was a write_record_payload that threw nothing
PayloadWritten ==
    last.op = "write_record_payload" /\ last.err.kind = "none"

\* the last call was a write_record_payload that threw
PayloadFailed ==
    last.op = "write_record_payload" /\ last.err.kind # "none"

\* the counters of the session are what the last call found
CountersKept ==
    /\ address = last.before.address
    /\ record_count = last.before.record_count

(* C23, as stated: in every reachable state of a writer session            *)
(* record_count is below 1,000,000 and representable in 24 bits.           *)
C23_Original ==
    /\ record_count < MAX_RECORD_COUNT
    /\ record_count <= MAX_ADDR24

(* C23: in every reachable state of a writer session record_count is at    *)
(* most 1,000,000 and representable in 24 bits; a write_record_payload     *)
(* succeeds only when it finds record_count below 1,000,000.               *)
C23_RecordCountBound ==
    /\ record_count <= MAX_RECORD_COUNT
    /\ record_count <= MAX_ADDR24
    /\ PayloadWritten => last.before.record_count < MAX_RECORD_COUNT

\* the write that found 999,999 records succeeded and made them 1,000,000
C23_Witness ==
    /\ PayloadWritten
    /\ last.before.record_count = MAX_RECORD_COUNT - 1
    /\ record_count = MAX_RECORD_COUNT

(* C25: whenever write_record_payload fails, for any reason (closed        *)
(* session, record limit, 32-bit overflow, address above the maximum of    *)
(* the address size, buffer too large for one record), the output file,    *)
(* current_address and record_count are what they were before the call.    *)
C25_FailedWriteKeepsState ==
    PayloadFailed
    => /\ Untouched
       /\ CountersKept
       /\ is_open = last.before.is_open
       /\ \/ last.err.kind = "file" /\ ~last.before.is_open
          \/ /\ last.err.kind = "validation"
             /\ \/ last.before.record_count >= MAX_RECORD_COUNT
                \/ WidthBytes[address_size_bits] + Len(last.buffer)
                   > MAX_RECORD_DATA
          \/ /\ last.err.kind = "address"
             /\ \/ ~PairLe(PairPlus(last.before.address, Len(last.buffer)),
                           UINT32_MAX)
                \/ ~PairLe(last.before.address, WidthMax[address_size_bits])

\* a write failed for the address, after a write that had put a line in
\* the file and moved the address
C25_Witness ==
    /\ PayloadFailed
    /\ last.err.kind = "address"
    /\ Len(fs[filename].lines) = 1
    /\ address # hist.start
    /\ record_count = 1

\* a write failed for the record limit
C25_WitnessLimit ==
    /\ PayloadFailed
    /\ last.err.kind = "validation"
    /\ record_count = MAX_RECORD_COUNT
    /\ Len(last.buffer) = 2

\* a write failed for a buffer too large for one record
C25_WitnessTooLarge ==
    /\ PayloadFailed
    /\ last.err.kind = "validation"
    /\ record_count = 1
    /\ Len(last.buffer) = 253

\* the calls that write no data record
OtherCalls ==
    {"write_header", "write_header_text", "write_record_count",
     "write_record_termination", "close", "max_data_bytes_per_record"}

(* C26: write_header, write_record_count, write_record_termination and     *)
(* close never change current_address, exec_address, record_count or the   *)
(* address width; only a successful write_record_payload changes           *)
(* current_address and record_count, so record_count is the number of      *)
(* data records written and the count record carries that number.          *)
C26_Frame ==
    /\ last.op \in OtherCalls \/ PayloadFailed => CountersKept
    /\ last.op # "none"
       => /\ exec_address = last.before.exec_address
          /\ address_size_bits = last.before.address_size_bits
    /\ exec_address = hist.start
    /\ PayloadWritten
       => /\ record_count = last.before.record_count + 1
          /\ address = WUint32(PairPlus(last.before.address, Len(last.buffer)))
    /\ record_count = hist.n_ok
    /\ (last.op = "write_record_count" /\ last.err.kind = "none")
       => /\ AppendedOne
          /\ FieldAddress(Appended[1],
                          IF record_count <= MAX_ADDR16 THEN 2 ELSE 3)
             = WOf(hist.n_ok)

\* a header, a data record and the count record were written: the count
\* record counts the one data record
C26_Witness ==
    /\ last.op = "write_record_count"
    /\ last.err.kind = "none"
    /\ Len(fs[filename].lines) = 3
    /\ fs[filename].lines[1][2] = Ord["0"]
    /\ record_count = 1
    /\ hist.n_ok = 1
    /\ FieldAddress(fs[filename].lines[3], 2) = WOf(1)

\* the data record the last call appended: its address field and the
\* number of its payload bytes, as the line says them
WrittenStart == FieldAddress(Appended[1], WidthBytes[address_size_bits])

WrittenLength ==
    PairValue(Appended[1], 3) - WidthBytes[address_size_bits] - 1

(* C30: in a 16-bit (24-bit) writer session every data record that         *)
(* write_record_payload appends lies inside the address space of its       *)
(* width: its start address plus its payload length minus 1 is at most     *)
(* 0xFFFF (0xFFFFFF).                                                      *)
C30_RecordInside ==
    (PayloadWritten /\ address_size_bits \in {"BITS16", "BITS24"})
    => /\ AppendedOne
       /\ PairLe(PairPlus(WrittenStart, WrittenLength),
                 PairPlus(WidthMax[address_size_bits], 1))

\* the start address of every data record written is inside the address
\* space of its width
C30_StartInside ==
    PayloadWritten
    => /\ AppendedOne
       /\ WrittenStart = last.before.address
       /\ WrittenLength = Len(last.buffer)
       /\ PairLe(WrittenStart, WidthMax[address_size_bits])

\* a 16-bit session wrote a record of 2 bytes at 0xFFFF
C30_RecordOutside ==
    /\ PayloadWritten
    /\ address_size_bits = "BITS16"
    /\ AppendedOne
    /\ WrittenStart = WOf(MAX_ADDR16)
    /\ WrittenLength = 2
    /\ address = WOf(MAX_ADDR16 + 2)

-----------------------------------------------------------------------------
(* What the claims about the construction of records, the round trip of    *)
(* one record and the byte count of a line expect.                         *)

\* the largest address or count of the kinds that have one
KindMax ==
    [S1 |-> <<0, 65535>>, S9 |-> <<0, 65535>>, S5 |-> <<0, 65535>>,
     S2 |-> <<255, 65535>>, S8 |-> <<255, 65535>>, S6 |-> <<255, 65535>>]

\* a record was constructed, and formatted if the constructor let it
Constructed == fmt.op = "toString"

(* C24: constructing an S1 or S9 record with an address above 0xFFFF, or   *)
(* an S2 or S8 record with an address above 0xFFFFFF, fails with an        *)
(* address-range error carrying the address and the maximum of the kind;   *)
(* constructing an S5 record with a count above 0xFFFF or an S6 record     *)
(* with a count above 0xFFFFFF fails; every value at or below the maximum  *)
(* of the kind is accepted.                                                *)
C24_ConstructionValidation ==
    Constructed
    => LET t == fmt.rec.type
           a == fmt.rec.address
       IN  /\ (t \in {"S1", "S9", "S2", "S8"} /\ ~PairLe(a, KindMax[t]))
              => /\ fmt.ctor.kind = "address"
                 /\ fmt.ctor.address = a
                 /\ fmt.ctor.max_address = KindMax[t]
                 /\ ~fmt.res.ok
                 /\ fmt.res.err = fmt.ctor
                 /\ fmt.line = <<>>
           /\ (t \in {"S5", "S6"} /\ ~PairLe(a, KindMax[t]))
              => /\ fmt.ctor.kind # "none"
                 /\ ~fmt.res.ok
                 /\ fmt.line = <<>>
           /\ (t \notin DOMAIN KindMax \/ PairLe(a, KindMax[t]))
              => fmt.ctor.kind = "none"

\* an S9 record at 0x10000 was refused with the address and 0xFFFF
C24_Witness ==
    /\ Constructed
    /\ fmt.rec.type = "S9"
    /\ fmt.rec.address = WOf(MAX_ADDR16 + 1)
    /\ fmt.ctor.kind = "address"
    /\ fmt.ctor.address = <<1, 0>>
    /\ fmt.ctor.max_address = <<0, 65535>>

\* an S6 record with the count 0x1000000 was refused
C24_WitnessCount ==
    /\ Constructed
    /\ fmt.rec.type = "S6"
    /\ fmt.rec.address = WOf(MAX_ADDR24 + 1)
    /\ fmt.ctor.kind = "std"
    /\ ~fmt.res.ok

\* an S2 record at 0xFFFFFF was accepted and formatted
C24_WitnessAccepted ==
    /\ Constructed
    /\ fmt.rec.type = "S2"
    /\ fmt.rec.address = WOf(MAX_ADDR24)
    /\ fmt.ctor.kind = "none"
    /\ fmt.res.ok

(* C27: for every record r of every kind that toString() formats,          *)
(* parse_line(r.toString(), n, validate_checksum = true) succeeds and      *)
(* returns the same kind, the same address (the count for S5/S6, zero for  *)
(* S0), the same data bytes and checksum_valid = true.                     *)
C27_RecordRoundTrip ==
    (fmt.op = "parse_line" /\ fmt.mut.kind = "none" /\ fmt.validate)
    => /\ Construct(fmt.rec.type, fmt.rec.address).kind = "none"
       /\ toString(fmt.rec).ok
       /\ fmt.line = toString(fmt.rec).line
       /\ fmt.res.ok
       /\ fmt.res.err.kind = "none"
       /\ fmt.res.record.type = fmt.rec.type
       /\ fmt.res.record.address =
             (IF fmt.rec.type = "S0" THEN <<0, 0>> ELSE fmt.rec.address)
       /\ fmt.res.record.data = fmt.rec.data
       /\ fmt.res.record.checksum_valid

\* an S3 record of 250 bytes at 0xFFFFFFFF, the longest that is formatted,
\* came back from its line
C27_Witness ==
    /\ fmt.op = "parse_line"
    /\ fmt.mut.kind = "none"
    /\ fmt.validate
    /\ fmt.rec.type = "S3"
    /\ fmt.rec.address = UINT32_MAX
    /\ Len(fmt.rec.data) = 250
    /\ Len(fmt.line) = 4 + (2 * 255)
    /\ fmt.res.ok
    /\ fmt.res.record.data = fmt.rec.data

\* an S6 record with the count 0xFFFFFF came back from its line
C27_WitnessCount ==
    /\ fmt.op = "parse_line"
    /\ fmt.mut.kind = "none"
    /\ fmt.validate
    /\ fmt.rec.type = "S6"
    /\ fmt.res.ok
    /\ fmt.res.record.type = "S6"
    /\ fmt.res.record.address = WOf(MAX_ADDR24)

\* the kinds whose records came back are all the kinds there are
C27_Kinds == {KindDigit[t] : t \in {r.type : r \in ParseRecords}} = TypeDigits

\* the width of the address field of the kind a type digit names
DigitWidth(c) ==
    AddressWidth[CHOOSE t \in DOMAIN KindDigit : KindDigit[t] = c]

\* the line declares a byte count too small for its address field and its
\* checksum
ShortByteCount(line) ==
    /\ Len(line) >= 4
    /\ line[1] = Ord["S"]
    /\ line[2] \in TypeDigits
    /\ IsHexDigit(line[3]) /\ IsHexDigit(line[4])
    /\ PairValue(line, 3) < DigitWidth(line[2]) + 1

(* C28: parse_line returns no record for a line whose declared byte_count  *)
(* is smaller than the address width of the kind plus 1: it fails with a   *)
(* parse error; and every record it returns has                            *)
(* len(data) = byte_count - address_width - 1 >= 0.                        *)
C28_ShortByteCount ==
    Parsed
    => /\ ShortByteCount(fmt.line)
          => /\ ~fmt.res.ok
             /\ fmt.res.err.kind = "parse"
             /\ fmt.res.record = NoRecord
       /\ fmt.res.ok
          => /\ ~ShortByteCount(fmt.line)
             /\ PairValue(fmt.line, 3) - DigitWidth(fmt.line[2]) - 1 >= 0
             /\ Len(fmt.res.record.data)
                = PairValue(fmt.line, 3) - DigitWidth(fmt.line[2]) - 1
             /\ Len(fmt.line)
                = 4 + 2 * (DigitWidth(fmt.line[2]) + Len(fmt.res.record.data) + 1)

\* "S10200FD", byte count 2 on an S1 line of matching length, was refused
C28_Witness ==
    /\ fmt.op = "parse_literal"
    /\ fmt.line = Str(<<"S", "1", "0", "2", "0", "0", "F", "D">>)
    /\ ShortByteCount(fmt.line)
    /\ Len(fmt.line) = 4 + (2 * PairValue(fmt.line, 3))
    /\ ~fmt.res.ok
    /\ fmt.res.err.kind = "parse"
    /\ fmt.res.err.line_number = fmt.line_number

\* "S30400000000", byte count 4 on an S3 line of matching length, was refused
C28_WitnessS3 ==
    /\ fmt.op = "parse_literal"
    /\ fmt.line = Str(<<"S", "3", "0", "4", "0", "0", "0", "0", "0", "0", "0", "0">>)
    /\ ShortByteCount(fmt.line)
    /\ ~fmt.res.ok
    /\ fmt.res.err.kind = "parse"

-----------------------------------------------------------------------------
(* What the claim about the end of a conversion expects.                   *)

\* convert_stream was called
StreamStarted == conv.api = "convert_stream" /\ conv.pc # "off"

\* convert_stream has returned or thrown
StreamFinished ==
    conv.api = "convert_stream" /\ conv.pc \in {"encoded", "failed"}

(* C29: for every finite input stream, every requested buffer_size (0      *)
(* included) and every progress callback, convert_stream eventually        *)
(* finishes, successfully or with an error; it never loops forever.        *)
C29_Termination == StreamStarted ~> StreamFinished

\* a conversion with buffer_size 0 and a callback that always returns true
\* ended when write_record_payload refused the 1,000,001st empty record
C29_Witness ==
    /\ StreamFinished
    /\ conv.buffer_size = 0
    /\ conv.cb = "continue"
    /\ conv.pc = "failed"
    /\ conv.err.kind = "validation"
    /\ conv.err.sub = "DATA_TOO_LARGE"
    /\ record_count = MAX_RECORD_COUNT
    /\ ~is_open

\* a conversion of 3 bytes with buffer_size 1 and a checksum ended well
C29_WitnessSuccess ==
    /\ StreamFinished
    /\ conv.buffer_size = 1
    /\ conv.want_checksum
    /\ Len(conv.input) = 3
    /\ Len(fs[filename].lines) = 6
    /\ conv.pc = "encoded"
    /\ conv.err.kind = "none"

=============================================================================
